---- MODULE Spec2Model ----
(***************************************************************************)
(* Model of the tiling window manager component (src/unnamed/part_001,     *)
(* with getWindowConfig from src/src/helpers.ts).                          *)
(*                                                                         *)
(* The state is the four React state hooks of the component.  One action   *)
(* models one event handler; the component re-renders between two events,  *)
(* so a handler reads the state left by the previous handler.             *)
(*                                                                         *)
(* Lengths and coordinates are JavaScript numbers.  The model counts them  *)
(* in units of 1/SubPixel px, chosen so that every length the handlers     *)
(* halve is an even number of units: n / 2 is then exactly n \div 2.       *)
(***************************************************************************)
EXTENDS Integers, Sequences, FiniteSets, TLC

\* ------------------------------------------------------------------------
\* Bounds of the model
\* ------------------------------------------------------------------------

\* Number of windows the "+" button creates in one behaviour.
MaxWindows == 3

\* ------------------------------------------------------------------------
\* Program constants
\* ------------------------------------------------------------------------
MIN_WIDTH == 200
MIN_HEIGHT == 150
SNAP_THRESHOLD == 30
DRAG_OUT_THRESHOLD == 50
HEADER_HEIGHT == 40

\* Width of the delete button that ends a window's header row (w-[40px]).
DELETE_BUTTON_WIDTH == 40

\* Units per pixel.  A window's bounds are halved at most once per tiled
\* window, so no length is halved more than MaxWindows times.
SubPixel == 2 ^ (MaxWindows + 1)
Px(n) == n * SubPixel

\* The root element is w-screen h-screen: its rectangle is the viewport.
\* The size of the viewport when the page loads, and after the user has
\* resized the browser window to half the width.
ViewportWidth == 800
ViewportHeight == 600
ViewportSizes ==
  { [width |-> Px(ViewportWidth), height |-> Px(ViewportHeight)],
    [width |-> Px(ViewportWidth) \div 2, height |-> Px(ViewportHeight)] }

\* The value of a state hook that holds null.
Null == [null |-> TRUE]

\* splitRatio: 0.5, kept as the fraction 1/2.
SplitHalf == [num |-> 1, den |-> 2]

Sides == {"left", "right", "top", "bottom"}

\* getId() for a container node.  Container ids live apart from window ids;
\* nothing but the tree itself holds a container id, so the id of a
\* container that has left the tree can be drawn again.
ContainerIds == 101..(100 + MaxWindows)

\* Pointer positions (clientX, clientY) the events are drawn from.
Pt(px, py) == [x |-> px, y |-> py]
PxPt(px, py) == Pt(Px(px), Px(py))
Points ==
  { PxPt(5, 300),     \* within SNAP_THRESHOLD of the left screen edge
    PxPt(100, 20),    \* on the header of a window at the top left, and
                      \* within SNAP_THRESHOLD of the top screen edge
    PxPt(380, 300),   \* near the right edge of a left-half window
    PxPt(200, 300),   \* away from every screen edge
    PxPt(150, 20),    \* DRAG_OUT_THRESHOLD to the right of (100, 20)
    PxPt(130, 50) }   \* 30 px right of and 30 px below (100, 20)

\* Where in a floating window's header the pointer goes down, relative to
\* the window's origin.
DownOffsets == { PxPt(100, 20) }

\* getRandomPosition(): positions a new floating window may get.
InitPositions == { PxPt(100, 280) }

\* getRandomColor(): hues a new window may get.
Hues == { 210 }

Abs(n) == IF n < 0 THEN -n ELSE n

\* JavaScript n / 2 on a length counted in units.
Half(n) == n \div 2

Rect(rx, ry, rw, rh) == [x |-> rx, y |-> ry, width |-> rw, height |-> rh]

\* ------------------------------------------------------------------------
\* helpers.ts
\* ------------------------------------------------------------------------
getWindowConfig(position, rect) ==
  CASE position = "left" -> Rect(0, 0, Half(rect.width), rect.height)
    [] position = "right" ->
         Rect(Half(rect.width), 0, Half(rect.width), rect.height)
    [] position = "top" -> Rect(0, 0, rect.width, Half(rect.height))
    [] position = "bottom" ->
         Rect(0, Half(rect.height), rect.width, Half(rect.height))
    [] OTHER -> Rect(0, 0, 0, 0)

\* ------------------------------------------------------------------------
\* State
\* ------------------------------------------------------------------------
VARIABLES
  floatingWindows,  \* useState<FloatingWindow[]>: sequence of windows
  snappedLayout,    \* useState<SnapNode | null>: the snap tree
  draggedWindow,    \* useState<{id, type, offset} | null>
  snapIndicator,    \* useState<SnapIndicator | null>
  created,          \* number of windows created so far (getId, Date.now)
  lastEvent,        \* the handler that ran last and the branch it took
  viewport          \* width and height of the browser's viewport

vars == <<floatingWindows, snappedLayout, draggedWindow, snapIndicator,
          created, lastEvent, viewport>>

\* containerRef.current.getBoundingClientRect(): the root element fills the
\* viewport.
containerRect == viewport

\* ------------------------------------------------------------------------
\* Tree nodes
\* ------------------------------------------------------------------------
IsWindow(node) == node.type = "window"
IsContainer(node) == node.type = "container"

WindowNode(windowData, bounds) ==
  [id |-> windowData.id, type |-> "window", window |-> windowData,
   bounds |-> bounds]

ContainerNode(cid, direction, children, bounds) ==
  [id |-> cid, type |-> "container",
   container |-> [direction |-> direction, children |-> children,
                  splitRatio |-> SplitHalf],
   bounds |-> bounds]

\* All nodes of a tree, in depth-first order (node before its children).
RECURSIVE Nodes(_)
Nodes(node) ==
  IF node = Null THEN << >>
  ELSE IF IsContainer(node)
       THEN LET ch == node.container.children
                RECURSIVE Cat(_)
                Cat(i) == IF i > Len(ch) THEN << >>
                          ELSE Nodes(ch[i]) \o Cat(i + 1)
            IN <<node>> \o Cat(1)
       ELSE <<node>>

SeqRange(s) == { s[i] : i \in 1..Len(s) }
NodeSet(node) == SeqRange(Nodes(node))
Leaves(node) == SelectSeq(Nodes(node), IsWindow)
LeafIds(node) == { n.id : n \in SeqRange(Leaves(node)) }
UsedContainerIds(node) ==
  { n.id : n \in { m \in NodeSet(node) : IsContainer(m) } }

\* getId() for a new container of the tree.
FreshContainerId(node) ==
  CHOOSE c \in ContainerIds \ UsedContainerIds(node) :
    \A d \in ContainerIds \ UsedContainerIds(node) : c <= d

\* ------------------------------------------------------------------------
\* Tree manipulation functions
\* ------------------------------------------------------------------------
RECURSIVE findNodeById(_, _)
findNodeById(node, id) ==
  IF node = Null THEN Null
  ELSE IF node.id = id THEN node
  ELSE IF IsContainer(node)
       THEN LET ch == node.container.children
                RECURSIVE First(_)
                First(i) ==
                  IF i > Len(ch) THEN Null
                  ELSE LET found == findNodeById(ch[i], id)
                       IN IF found # Null THEN found ELSE First(i + 1)
            IN First(1)
       ELSE Null

\* removeNodeById with a promotion that leaves the remaining child at its
\* old bounds.
RECURSIVE removeNodeById_NoExpand(_, _)
removeNodeById_NoExpand(node, id) ==
  IF node = Null THEN Null
  ELSE IF IsContainer(node)
       THEN LET children ==
                  SelectSeq(node.container.children, LAMBDA c : c.id # id)
                mapped ==
                  [i \in 1..Len(children) |->
                     removeNodeById_NoExpand(children[i], id)]
                updatedChildren == SelectSeq(mapped, LAMBDA c : c # Null)
            IN IF Len(updatedChildren) = 0 THEN Null
               ELSE IF Len(updatedChildren) = 1 THEN updatedChildren[1]
               ELSE [node EXCEPT !.container.children = updatedChildren]
       ELSE IF node.id = id THEN Null ELSE node

\* removeNodeById that removes children of containers only, never the node
\* it is called on.
RECURSIVE removeNodeById_KeepRoot(_, _)
removeNodeById_KeepRoot(node, id) ==
  IF node = Null THEN Null
  ELSE IF IsContainer(node)
       THEN LET children ==
                  SelectSeq(node.container.children, LAMBDA c : c.id # id)
                mapped ==
                  [i \in 1..Len(children) |->
                     removeNodeById_KeepRoot(children[i], id)]
                updatedChildren == SelectSeq(mapped, LAMBDA c : c # Null)
            IN IF Len(updatedChildren) = 0 THEN Null
               ELSE IF Len(updatedChildren) = 1
                    THEN [updatedChildren[1] EXCEPT
                            !.bounds = Rect(node.bounds.x, node.bounds.y,
                                            node.bounds.width,
                                            node.bounds.height)]
                    ELSE [node EXCEPT !.container.children = updatedChildren]
       ELSE node

\* removeNodeById that puts the two children a container keeps in reverse
\* order.
RECURSIVE removeNodeById_Swap(_, _)
removeNodeById_Swap(node, id) ==
  IF node = Null THEN Null
  ELSE IF IsContainer(node)
       THEN LET children ==
                  SelectSeq(node.container.children, LAMBDA c : c.id # id)
                mapped ==
                  [i \in 1..Len(children) |->
                     removeNodeById_Swap(children[i], id)]
                updatedChildren == SelectSeq(mapped, LAMBDA c : c # Null)
            IN IF Len(updatedChildren) = 0 THEN Null
               ELSE IF Len(updatedChildren) = 1
                    THEN [updatedChildren[1] EXCEPT
                            !.bounds = Rect(node.bounds.x, node.bounds.y,
                                            node.bounds.width,
                                            node.bounds.height)]
                    ELSE [node EXCEPT
                            !.container.children =
                              <<updatedChildren[2], updatedChildren[1]>>]
       ELSE IF node.id = id THEN Null ELSE node

\* removeNodeById that shrinks a container that keeps both children to its
\* first child's bounds.
RECURSIVE removeNodeById_Shrink(_, _)
removeNodeById_Shrink(node, id) ==
  IF node = Null THEN Null
  ELSE IF IsContainer(node)
       THEN LET children ==
                  SelectSeq(node.container.children, LAMBDA c : c.id # id)
                mapped ==
                  [i \in 1..Len(children) |->
                     removeNodeById_Shrink(children[i], id)]
                updatedChildren == SelectSeq(mapped, LAMBDA c : c # Null)
            IN IF Len(updatedChildren) = 0 THEN Null
               ELSE IF Len(updatedChildren) = 1
                    THEN [updatedChildren[1] EXCEPT
                            !.bounds = Rect(node.bounds.x, node.bounds.y,
                                            node.bounds.width,
                                            node.bounds.height)]
                    ELSE [node EXCEPT
                            !.container.children = updatedChildren,
                            !.bounds = updatedChildren[1].bounds]
       ELSE IF node.id = id THEN Null ELSE node

RECURSIVE removeNodeById(_, _)
removeNodeById(node, id) ==
  IF node = Null THEN Null
  ELSE IF IsContainer(node)
       THEN LET children ==
                  SelectSeq(node.container.children, LAMBDA c : c.id # id)
                mapped ==
                  [i \in 1..Len(children) |-> removeNodeById(children[i], id)]
                updatedChildren == SelectSeq(mapped, LAMBDA c : c # Null)
            IN IF Len(updatedChildren) = 0 THEN Null
               ELSE IF Len(updatedChildren) = 1
                    THEN [updatedChildren[1] EXCEPT
                            !.bounds = Rect(node.bounds.x, node.bounds.y,
                                            node.bounds.width,
                                            node.bounds.height)]
                    ELSE [node EXCEPT !.container.children = updatedChildren]
       ELSE IF node.id = id THEN Null ELSE node

\* ------------------------------------------------------------------------
\* Snap detection
\* ------------------------------------------------------------------------
EdgeIndicator(rect, side) == [x |-> rect.x, y |-> rect.y, width |-> rect.width,
                              height |-> rect.height, side |-> side]
NodeIndicator(rect, side, id) ==
  [x |-> rect.x, y |-> rect.y, width |-> rect.width, height |-> rect.height,
   side |-> side, targetNodeId |-> id]

\* if (indicator.targetNodeId)
HasTarget(indicator) == "targetNodeId" \in DOMAIN indicator

RECURSIVE findSnapTargetInNode(_, _, _)
findSnapTargetInNode(node, mouseX, mouseY) ==
  IF /\ mouseX >= node.bounds.x
     /\ mouseX <= node.bounds.x + node.bounds.width
     /\ mouseY >= node.bounds.y
     /\ mouseY <= node.bounds.y + node.bounds.height
  THEN
    IF IsWindow(node)
    THEN LET threshold == Px(SNAP_THRESHOLD)
             relativeX == mouseX - node.bounds.x
             relativeY == mouseY - node.bounds.y
             isWiderThanTall == node.bounds.width > node.bounds.height
             b == node.bounds
         IN IF isWiderThanTall
            THEN IF relativeY <= threshold
                 THEN NodeIndicator(
                        Rect(b.x, b.y, b.width, Half(b.height)),
                        "top", node.id)
                 ELSE IF relativeY >= b.height - threshold
                 THEN NodeIndicator(
                        Rect(b.x, b.y + Half(b.height), b.width,
                             Half(b.height)),
                        "bottom", node.id)
                 ELSE Null
            ELSE IF relativeX <= threshold
                 THEN NodeIndicator(
                        Rect(b.x, b.y, Half(b.width), b.height),
                        "left", node.id)
                 ELSE IF relativeX >= b.width - threshold
                 THEN NodeIndicator(
                        Rect(b.x + Half(b.width), b.y, Half(b.width),
                             b.height),
                        "right", node.id)
                 ELSE Null
    ELSE IF IsContainer(node)
    THEN LET ch == node.container.children
             RECURSIVE First(_)
             First(i) ==
               IF i > Len(ch) THEN Null
               ELSE LET result == findSnapTargetInNode(ch[i], mouseX, mouseY)
                    IN IF result # Null THEN result ELSE First(i + 1)
         IN First(1)
    ELSE Null
  ELSE Null

\* getSnapTarget that looks at the tiled windows before the screen edges.
getSnapTarget_TreeFirst(mouseX, mouseY, rect, layout) ==
  LET threshold == Px(SNAP_THRESHOLD)
      inTree == IF layout # Null
                THEN findSnapTargetInNode(layout, mouseX, mouseY)
                ELSE Null
  IN IF inTree # Null THEN inTree
     ELSE IF mouseX <= threshold
     THEN EdgeIndicator(Rect(0, 0, Half(rect.width), rect.height), "left")
     ELSE IF mouseX >= rect.width - threshold
     THEN EdgeIndicator(
            Rect(Half(rect.width), 0, Half(rect.width), rect.height), "right")
     ELSE IF mouseY <= threshold
     THEN EdgeIndicator(Rect(0, 0, rect.width, Half(rect.height)), "top")
     ELSE IF mouseY >= rect.height - threshold
     THEN EdgeIndicator(
            Rect(0, Half(rect.height), rect.width, Half(rect.height)),
            "bottom")
     ELSE Null

getSnapTarget(mouseX, mouseY, rect, layout) ==
  LET threshold == Px(SNAP_THRESHOLD)
  IN IF mouseX <= threshold
     THEN EdgeIndicator(Rect(0, 0, Half(rect.width), rect.height), "left")
     ELSE IF mouseX >= rect.width - threshold
     THEN EdgeIndicator(
            Rect(Half(rect.width), 0, Half(rect.width), rect.height), "right")
     ELSE IF mouseY <= threshold
     THEN EdgeIndicator(Rect(0, 0, rect.width, Half(rect.height)), "top")
     ELSE IF mouseY >= rect.height - threshold
     THEN EdgeIndicator(
            Rect(0, Half(rect.height), rect.width, Half(rect.height)),
            "bottom")
     ELSE IF layout # Null
     THEN findSnapTargetInNode(layout, mouseX, mouseY)
     ELSE Null

\* ------------------------------------------------------------------------
\* Snap execution
\* ------------------------------------------------------------------------
DirectionOf(side) ==
  IF side = "left" \/ side = "right" THEN "horizontal" ELSE "vertical"

\* snapToExistingWindow that handles a target at the root only.
snapToExistingWindow_RootOnly(layout, targetId, newWindow, side, cid) ==
  IF layout = Null THEN Null
  ELSE IF layout.id = targetId /\ IsWindow(layout)
  THEN LET direction == DirectionOf(side)
           isNewWindowFirst == side = "left" \/ side = "top"
           b == layout.bounds
           firstBounds ==
             IF direction = "horizontal"
             THEN Rect(b.x, b.y, Half(b.width), b.height)
             ELSE Rect(b.x, b.y, b.width, Half(b.height))
           secondBounds ==
             IF direction = "horizontal"
             THEN Rect(b.x + Half(b.width), b.y, Half(b.width), b.height)
             ELSE Rect(b.x, b.y + Half(b.height), b.width, Half(b.height))
           newWindowNode == WindowNode(newWindow, Rect(0, 0, 0, 0))
           existingWindowNode == [layout EXCEPT !.bounds = Rect(0, 0, 0, 0)]
           children ==
             IF isNewWindowFirst
             THEN <<newWindowNode, existingWindowNode>>
             ELSE <<existingWindowNode, newWindowNode>>
       IN ContainerNode(cid, direction,
                        <<[children[1] EXCEPT !.bounds = firstBounds],
                          [children[2] EXCEPT !.bounds = secondBounds]>>,
                        layout.bounds)
  ELSE layout

\* snapToExistingWindow that splits the bounds of every container on the
\* way to the target anew between its two children.
RECURSIVE snapToExistingWindow_Resplit(_, _, _, _, _)
snapToExistingWindow_Resplit(layout, targetId, newWindow, side, cid) ==
  IF layout = Null THEN Null
  ELSE IF layout.id = targetId /\ IsWindow(layout)
  THEN LET direction == DirectionOf(side)
           isNewWindowFirst == side = "left" \/ side = "top"
           b == layout.bounds
           firstBounds ==
             IF direction = "horizontal"
             THEN Rect(b.x, b.y, Half(b.width), b.height)
             ELSE Rect(b.x, b.y, b.width, Half(b.height))
           secondBounds ==
             IF direction = "horizontal"
             THEN Rect(b.x + Half(b.width), b.y, Half(b.width), b.height)
             ELSE Rect(b.x, b.y + Half(b.height), b.width, Half(b.height))
           newWindowNode == WindowNode(newWindow, Rect(0, 0, 0, 0))
           existingWindowNode == [layout EXCEPT !.bounds = Rect(0, 0, 0, 0)]
           children ==
             IF isNewWindowFirst
             THEN <<newWindowNode, existingWindowNode>>
             ELSE <<existingWindowNode, newWindowNode>>
       IN ContainerNode(cid, direction,
                        <<[children[1] EXCEPT !.bounds = firstBounds],
                          [children[2] EXCEPT !.bounds = secondBounds]>>,
                        layout.bounds)
  ELSE IF IsContainer(layout)
  THEN LET b == layout.bounds
           horizontal == layout.container.direction = "horizontal"
           part(i) ==
             IF horizontal
             THEN Rect(b.x + (i - 1) * Half(b.width), b.y, Half(b.width),
                       b.height)
             ELSE Rect(b.x, b.y + (i - 1) * Half(b.height), b.width,
                       Half(b.height))
       IN [layout EXCEPT !.container.children =
             [i \in 1..Len(layout.container.children) |->
                LET child == layout.container.children[i]
                    r == snapToExistingWindow_Resplit(child, targetId,
                                                      newWindow, side, cid)
                IN [(IF r # Null THEN r ELSE child) EXCEPT
                      !.bounds = part(i)]]]
  ELSE layout

\* cid is the value getId() returns for the container the call creates.
RECURSIVE snapToExistingWindow(_, _, _, _, _)
snapToExistingWindow(layout, targetId, newWindow, side, cid) ==
  IF layout = Null THEN Null
  ELSE IF layout.id = targetId /\ IsWindow(layout)
  THEN LET direction == DirectionOf(side)
           isNewWindowFirst == side = "left" \/ side = "top"
           b == layout.bounds
           firstBounds ==
             IF direction = "horizontal"
             THEN Rect(b.x, b.y, Half(b.width), b.height)
             ELSE Rect(b.x, b.y, b.width, Half(b.height))
           secondBounds ==
             IF direction = "horizontal"
             THEN Rect(b.x + Half(b.width), b.y, Half(b.width), b.height)
             ELSE Rect(b.x, b.y + Half(b.height), b.width, Half(b.height))
           newWindowNode == WindowNode(newWindow, Rect(0, 0, 0, 0))
           existingWindowNode == [layout EXCEPT !.bounds = Rect(0, 0, 0, 0)]
           children ==
             IF isNewWindowFirst
             THEN <<newWindowNode, existingWindowNode>>
             ELSE <<existingWindowNode, newWindowNode>>
       IN ContainerNode(cid, direction,
                        <<[children[1] EXCEPT !.bounds = firstBounds],
                          [children[2] EXCEPT !.bounds = secondBounds]>>,
                        layout.bounds)
  ELSE IF IsContainer(layout)
  THEN [layout EXCEPT !.container.children =
          [i \in 1..Len(layout.container.children) |->
             LET child == layout.container.children[i]
                 r == snapToExistingWindow(child, targetId, newWindow, side,
                                           cid)
             IN IF r # Null THEN r ELSE child]]
  ELSE layout

\* executeSnap that leaves the two children of the new root at the bounds
\* they come with.
executeSnap_NoResize(layout, windowData, indicator) ==
  IF HasTarget(indicator)
  THEN snapToExistingWindow(layout, indicator.targetNodeId, windowData,
                            indicator.side, FreshContainerId(layout))
  ELSE LET newWindowNode ==
             WindowNode(windowData, Rect(indicator.x, indicator.y,
                                         indicator.width, indicator.height))
       IN IF layout # Null
          THEN LET direction == DirectionOf(indicator.side)
                   isFirstChild ==
                     indicator.side = "left" \/ indicator.side = "top"
                   children ==
                     IF isFirstChild THEN <<newWindowNode, layout>>
                     ELSE <<layout, newWindowNode>>
               IN ContainerNode(
                    FreshContainerId(layout), direction, children,
                    Rect(0, 0, containerRect.width, containerRect.height))
          ELSE [newWindowNode EXCEPT
                  !.bounds = getWindowConfig(indicator.side, containerRect)]

\* The tree executeSnap stores with setSnappedLayout.  The assignment to
\* children[i].bounds writes the bounds of the old root node itself.
executeSnap(layout, windowData, indicator) ==
  IF HasTarget(indicator)
  THEN snapToExistingWindow(layout, indicator.targetNodeId, windowData,
                            indicator.side, FreshContainerId(layout))
  ELSE LET newWindowNode ==
             WindowNode(windowData, Rect(indicator.x, indicator.y,
                                         indicator.width, indicator.height))
       IN IF layout # Null
          THEN LET direction == DirectionOf(indicator.side)
                   isFirstChild ==
                     indicator.side = "left" \/ indicator.side = "top"
                   children ==
                     IF isFirstChild THEN <<newWindowNode, layout>>
                     ELSE <<layout, newWindowNode>>
                   firstBounds ==
                     IF direction = "horizontal"
                     THEN getWindowConfig("left", containerRect)
                     ELSE getWindowConfig("top", containerRect)
                   secondBounds ==
                     IF direction = "horizontal"
                     THEN getWindowConfig("right", containerRect)
                     ELSE getWindowConfig("bottom", containerRect)
               IN ContainerNode(
                    FreshContainerId(layout), direction,
                    <<[children[1] EXCEPT !.bounds = firstBounds],
                      [children[2] EXCEPT !.bounds = secondBounds]>>,
                    Rect(0, 0, containerRect.width, containerRect.height))
          ELSE [newWindowNode EXCEPT
                  !.bounds = getWindowConfig(indicator.side, containerRect)]

\* ------------------------------------------------------------------------
\* Floating windows
\* ------------------------------------------------------------------------
FloatingIds == { floatingWindows[i].id : i \in 1..Len(floatingWindows) }

\* floatingWindows.find((w) => w.id === id), Null when there is none.
FindFloating(id) ==
  LET idx == { i \in 1..Len(floatingWindows) : floatingWindows[i].id = id }
  IN IF idx = {} THEN Null
     ELSE floatingWindows[CHOOSE i \in idx : \A j \in idx : i <= j]

\* WindowDataOf that drops the title.
WindowDataOf_Untitled(w) == [id |-> w.id, color |-> w.color, title |-> 0]

\* The payload { id, color, title } of floating window w.
WindowDataOf(w) == [id |-> w.id, color |-> w.color, title |-> w.title]

Event(op, how) == [op |-> op, how |-> how]

\* The title area of a window's header row: the row is HEADER_HEIGHT high
\* and ends with the delete button.
InHeader(b, p) ==
  /\ p.x >= b.x
  /\ p.x <= b.x + b.width - Px(DELETE_BUTTON_WIDTH)
  /\ p.y >= b.y
  /\ p.y <= b.y + Px(HEADER_HEIGHT)

\* ------------------------------------------------------------------------
\* Actions: one per event handler
\* ------------------------------------------------------------------------
Init ==
  /\ floatingWindows = << >>
  /\ snappedLayout = Null
  /\ draggedWindow = Null
  /\ snapIndicator = Null
  /\ created = 0
  /\ lastEvent = Event("init", "none")
  /\ viewport = [width |-> Px(ViewportWidth), height |-> Px(ViewportHeight)]

\* The window objects on screen: floating windows and tiled leaves.
WindowObjects == Len(floatingWindows) + Len(Leaves(snappedLayout))

\* Click on the "+" button.  At most MaxWindows windows are created and at
\* most MaxWindows window objects are on screen.
addFloatingWindow ==
  /\ created < MaxWindows
  /\ WindowObjects < MaxWindows
  /\ \E pos \in InitPositions, hue \in Hues :
       LET windowData ==
             [id |-> created + 1, color |-> hue, title |-> created + 1]
           newWindow ==
             [id |-> windowData.id, color |-> windowData.color,
              title |-> windowData.title, x |-> pos.x, y |-> pos.y,
              width |-> Px(MIN_WIDTH), height |-> Px(MIN_HEIGHT)]
       IN floatingWindows' = Append(floatingWindows, newWindow)
  /\ created' = created + 1
  /\ UNCHANGED viewport
  /\ lastEvent' = Event("addFloatingWindow", "none")
  /\ UNCHANGED <<snappedLayout, draggedWindow, snapIndicator>>

\* Click on the delete button of floating window id.
deleteFloatingWindow(id) ==
  /\ id \in FloatingIds
  /\ floatingWindows' = SelectSeq(floatingWindows, LAMBDA w : w.id # id)
  /\ lastEvent' = Event("deleteFloatingWindow", "none")
  /\ UNCHANGED <<snappedLayout, draggedWindow, snapIndicator, created, viewport>>

\* deleteSnappedWindow that also empties the floating set.
deleteSnappedWindow_ClearsFloating(id) ==
  /\ id \in LeafIds(snappedLayout)
  /\ snappedLayout' = removeNodeById(snappedLayout, id)
  /\ floatingWindows' = << >>
  /\ lastEvent' = Event("deleteSnappedWindow", "none")
  /\ UNCHANGED <<draggedWindow, snapIndicator, created, viewport>>

\* Click on the delete button of tiled window id.
deleteSnappedWindow(id) ==
  /\ id \in LeafIds(snappedLayout)
  /\ snappedLayout' = removeNodeById(snappedLayout, id)
  /\ lastEvent' = Event("deleteSnappedWindow", "none")
  /\ UNCHANGED <<floatingWindows, draggedWindow, snapIndicator, created, viewport>>

\* Mouse down on the title of floating window windowId, the pointer at
\* offset o from the window's origin.
handleMouseDownFloating(windowId, o) ==
  /\ windowId \in FloatingIds
  /\ LET window == FindFloating(windowId)
         clientX == window.x + o.x
         clientY == window.y + o.y
     IN draggedWindow' =
          [id |-> windowId, type |-> "floating",
           offset |-> Pt(clientX - window.x, clientY - window.y)]
  /\ lastEvent' = Event("handleMouseDown", "floating")
  /\ UNCHANGED <<floatingWindows, snappedLayout, snapIndicator, created, viewport>>

\* Mouse down at p on the title of tiled window windowId.
handleMouseDownSnapped(windowId, p) ==
  /\ \E n \in NodeSet(snappedLayout) :
       IsWindow(n) /\ n.id = windowId /\ InHeader(n.bounds, p)
  /\ draggedWindow' =
       [id |-> windowId, type |-> "snapped", offset |-> Pt(p.x, p.y)]
  /\ lastEvent' = Event("handleMouseDown", "snapped")
  /\ UNCHANGED <<floatingWindows, snappedLayout, snapIndicator, created, viewport>>

\* handleMouseMove that puts the dragged floating window's origin at the
\* pointer.
handleMouseMove_NoOffset(p) ==
  /\ draggedWindow # Null
  /\ IF draggedWindow.type = "floating"
     THEN LET newX == p.x
              newY == p.y
          IN /\ floatingWindows' =
                  [i \in 1..Len(floatingWindows) |->
                     IF floatingWindows[i].id = draggedWindow.id
                     THEN [floatingWindows[i] EXCEPT !.x = newX, !.y = newY]
                     ELSE floatingWindows[i]]
             /\ snapIndicator' =
                  getSnapTarget(p.x, p.y, containerRect, snappedLayout)
             /\ lastEvent' = Event("handleMouseMove", "floating")
             /\ UNCHANGED <<snappedLayout, draggedWindow, created, viewport>>
     ELSE LET dragDistance ==
                Abs(p.x - draggedWindow.offset.x)
                + Abs(p.y - draggedWindow.offset.y)
              snappedNode == findNodeById(snappedLayout, draggedWindow.id)
          IN IF /\ dragDistance > Px(DRAG_OUT_THRESHOLD)
                /\ snappedNode # Null
                /\ "window" \in DOMAIN snappedNode
             THEN LET w == snappedNode.window
                      newFloatingWindow ==
                        [id |-> w.id, color |-> w.color, title |-> w.title,
                         x |-> p.x - Half(Px(MIN_WIDTH)),
                         y |-> p.y - Half(Px(HEADER_HEIGHT)),
                         width |-> Px(MIN_WIDTH),
                         height |-> Px(MIN_HEIGHT)]
                  IN /\ floatingWindows' =
                          Append(floatingWindows, newFloatingWindow)
                     /\ snappedLayout' =
                          removeNodeById(snappedLayout, draggedWindow.id)
                     /\ draggedWindow' =
                          [id |-> draggedWindow.id, type |-> "floating",
                           offset |-> Pt(Half(Px(MIN_WIDTH)),
                                         Half(Px(HEADER_HEIGHT)))]
                     /\ lastEvent' = Event("handleMouseMove", "dragOut")
                     /\ UNCHANGED <<snapIndicator, created, viewport>>
             ELSE /\ lastEvent' = Event("handleMouseMove", "snapped")
                  /\ UNCHANGED <<floatingWindows, snappedLayout,
                                 draggedWindow, snapIndicator, created, viewport>>

\* handleMouseMove that converts a tiled window on any move, whatever the
\* drag distance.
handleMouseMove_NoThreshold(p) ==
  /\ draggedWindow # Null
  /\ IF draggedWindow.type = "floating"
     THEN LET newX == p.x - draggedWindow.offset.x
              newY == p.y - draggedWindow.offset.y
          IN /\ floatingWindows' =
                  [i \in 1..Len(floatingWindows) |->
                     IF floatingWindows[i].id = draggedWindow.id
                     THEN [floatingWindows[i] EXCEPT !.x = newX, !.y = newY]
                     ELSE floatingWindows[i]]
             /\ snapIndicator' =
                  getSnapTarget(p.x, p.y, containerRect, snappedLayout)
             /\ lastEvent' = Event("handleMouseMove", "floating")
             /\ UNCHANGED <<snappedLayout, draggedWindow, created, viewport>>
     ELSE LET snappedNode == findNodeById(snappedLayout, draggedWindow.id)
          IN IF /\ snappedNode # Null
                /\ "window" \in DOMAIN snappedNode
             THEN LET w == snappedNode.window
                      newFloatingWindow ==
                        [id |-> w.id, color |-> w.color, title |-> w.title,
                         x |-> p.x - Half(Px(MIN_WIDTH)),
                         y |-> p.y - Half(Px(HEADER_HEIGHT)),
                         width |-> Px(MIN_WIDTH),
                         height |-> Px(MIN_HEIGHT)]
                  IN /\ floatingWindows' =
                          Append(floatingWindows, newFloatingWindow)
                     /\ snappedLayout' =
                          removeNodeById(snappedLayout, draggedWindow.id)
                     /\ draggedWindow' =
                          [id |-> draggedWindow.id, type |-> "floating",
                           offset |-> Pt(Half(Px(MIN_WIDTH)),
                                         Half(Px(HEADER_HEIGHT)))]
                     /\ lastEvent' = Event("handleMouseMove", "dragOut")
                     /\ UNCHANGED <<snapIndicator, created, viewport>>
             ELSE /\ lastEvent' = Event("handleMouseMove", "snapped")
                  /\ UNCHANGED <<floatingWindows, snappedLayout,
                                 draggedWindow, snapIndicator, created, viewport>>

\* handleMouseMove whose drag-out puts the new floating window's origin at
\* the pointer.
handleMouseMove_DragOutAtPointer(p) ==
  /\ draggedWindow # Null
  /\ IF draggedWindow.type = "floating"
     THEN LET newX == p.x - draggedWindow.offset.x
              newY == p.y - draggedWindow.offset.y
          IN /\ floatingWindows' =
                  [i \in 1..Len(floatingWindows) |->
                     IF floatingWindows[i].id = draggedWindow.id
                     THEN [floatingWindows[i] EXCEPT !.x = newX, !.y = newY]
                     ELSE floatingWindows[i]]
             /\ snapIndicator' =
                  getSnapTarget(p.x, p.y, containerRect, snappedLayout)
             /\ lastEvent' = Event("handleMouseMove", "floating")
             /\ UNCHANGED <<snappedLayout, draggedWindow, created, viewport>>
     ELSE LET dragDistance ==
                Abs(p.x - draggedWindow.offset.x)
                + Abs(p.y - draggedWindow.offset.y)
              snappedNode == findNodeById(snappedLayout, draggedWindow.id)
          IN IF /\ dragDistance > Px(DRAG_OUT_THRESHOLD)
                /\ snappedNode # Null
                /\ "window" \in DOMAIN snappedNode
             THEN LET w == snappedNode.window
                      newFloatingWindow ==
                        [id |-> w.id, color |-> w.color, title |-> w.title,
                         x |-> p.x,
                         y |-> p.y,
                         width |-> Px(MIN_WIDTH),
                         height |-> Px(MIN_HEIGHT)]
                  IN /\ floatingWindows' =
                          Append(floatingWindows, newFloatingWindow)
                     /\ snappedLayout' =
                          removeNodeById(snappedLayout, draggedWindow.id)
                     /\ draggedWindow' =
                          [id |-> draggedWindow.id, type |-> "floating",
                           offset |-> Pt(Half(Px(MIN_WIDTH)),
                                         Half(Px(HEADER_HEIGHT)))]
                     /\ lastEvent' = Event("handleMouseMove", "dragOut")
                     /\ UNCHANGED <<snapIndicator, created, viewport>>
             ELSE /\ lastEvent' = Event("handleMouseMove", "snapped")
                  /\ UNCHANGED <<floatingWindows, snappedLayout,
                                 draggedWindow, snapIndicator, created, viewport>>

\* handleMouseMove that keeps the indicator it has when the pointer is over no
\* snap target.
handleMouseMove_StickyIndicator(p) ==
  /\ draggedWindow # Null
  /\ IF draggedWindow.type = "floating"
     THEN LET newX == p.x - draggedWindow.offset.x
              newY == p.y - draggedWindow.offset.y
          IN /\ floatingWindows' =
                  [i \in 1..Len(floatingWindows) |->
                     IF floatingWindows[i].id = draggedWindow.id
                     THEN [floatingWindows[i] EXCEPT !.x = newX, !.y = newY]
                     ELSE floatingWindows[i]]
             /\ snapIndicator' =
                  LET target == getSnapTarget(p.x, p.y, containerRect,
                                              snappedLayout)
                  IN IF target # Null THEN target ELSE snapIndicator
             /\ lastEvent' = Event("handleMouseMove", "floating")
             /\ UNCHANGED <<snappedLayout, draggedWindow, created, viewport>>
     ELSE LET dragDistance ==
                Abs(p.x - draggedWindow.offset.x)
                + Abs(p.y - draggedWindow.offset.y)
              snappedNode == findNodeById(snappedLayout, draggedWindow.id)
          IN IF /\ dragDistance > Px(DRAG_OUT_THRESHOLD)
                /\ snappedNode # Null
                /\ "window" \in DOMAIN snappedNode
             THEN LET w == snappedNode.window
                      newFloatingWindow ==
                        [id |-> w.id, color |-> w.color, title |-> w.title,
                         x |-> p.x - Half(Px(MIN_WIDTH)),
                         y |-> p.y - Half(Px(HEADER_HEIGHT)),
                         width |-> Px(MIN_WIDTH),
                         height |-> Px(MIN_HEIGHT)]
                  IN /\ floatingWindows' =
                          Append(floatingWindows, newFloatingWindow)
                     /\ snappedLayout' =
                          removeNodeById(snappedLayout, draggedWindow.id)
                     /\ draggedWindow' =
                          [id |-> draggedWindow.id, type |-> "floating",
                           offset |-> Pt(Half(Px(MIN_WIDTH)),
                                         Half(Px(HEADER_HEIGHT)))]
                     /\ lastEvent' = Event("handleMouseMove", "dragOut")
                     /\ UNCHANGED <<snapIndicator, created, viewport>>
             ELSE /\ lastEvent' = Event("handleMouseMove", "snapped")
                  /\ UNCHANGED <<floatingWindows, snappedLayout,
                                 draggedWindow, snapIndicator, created, viewport>>

\* handleMouseMove that measures the drag distance along the straight line.
handleMouseMove_Euclidean(p) ==
  /\ draggedWindow # Null
  /\ IF draggedWindow.type = "floating"
     THEN LET newX == p.x - draggedWindow.offset.x
              newY == p.y - draggedWindow.offset.y
          IN /\ floatingWindows' =
                  [i \in 1..Len(floatingWindows) |->
                     IF floatingWindows[i].id = draggedWindow.id
                     THEN [floatingWindows[i] EXCEPT !.x = newX, !.y = newY]
                     ELSE floatingWindows[i]]
             /\ snapIndicator' =
                  getSnapTarget(p.x, p.y, containerRect, snappedLayout)
             /\ lastEvent' = Event("handleMouseMove", "floating")
             /\ UNCHANGED <<snappedLayout, draggedWindow, created, viewport>>
     ELSE LET dx == p.x - draggedWindow.offset.x
              dy == p.y - draggedWindow.offset.y
              snappedNode == findNodeById(snappedLayout, draggedWindow.id)
          IN IF /\ dx * dx + dy * dy
                   > Px(DRAG_OUT_THRESHOLD) * Px(DRAG_OUT_THRESHOLD)
                /\ snappedNode # Null
                /\ "window" \in DOMAIN snappedNode
             THEN LET w == snappedNode.window
                      newFloatingWindow ==
                        [id |-> w.id, color |-> w.color, title |-> w.title,
                         x |-> p.x - Half(Px(MIN_WIDTH)),
                         y |-> p.y - Half(Px(HEADER_HEIGHT)),
                         width |-> Px(MIN_WIDTH),
                         height |-> Px(MIN_HEIGHT)]
                  IN /\ floatingWindows' =
                          Append(floatingWindows, newFloatingWindow)
                     /\ snappedLayout' =
                          removeNodeById(snappedLayout, draggedWindow.id)
                     /\ draggedWindow' =
                          [id |-> draggedWindow.id, type |-> "floating",
                           offset |-> Pt(Half(Px(MIN_WIDTH)),
                                         Half(Px(HEADER_HEIGHT)))]
                     /\ lastEvent' = Event("handleMouseMove", "dragOut")
                     /\ UNCHANGED <<snapIndicator, created, viewport>>
             ELSE /\ lastEvent' = Event("handleMouseMove", "snapped")
                  /\ UNCHANGED <<floatingWindows, snappedLayout,
                                 draggedWindow, snapIndicator, created, viewport>>

\* Mouse move to p over the root element.
handleMouseMove(p) ==
  /\ draggedWindow # Null
  /\ IF draggedWindow.type = "floating"
     THEN LET newX == p.x - draggedWindow.offset.x
              newY == p.y - draggedWindow.offset.y
          IN /\ floatingWindows' =
                  [i \in 1..Len(floatingWindows) |->
                     IF floatingWindows[i].id = draggedWindow.id
                     THEN [floatingWindows[i] EXCEPT !.x = newX, !.y = newY]
                     ELSE floatingWindows[i]]
             /\ snapIndicator' =
                  getSnapTarget(p.x, p.y, containerRect, snappedLayout)
             /\ lastEvent' = Event("handleMouseMove", "floating")
             /\ UNCHANGED <<snappedLayout, draggedWindow, created, viewport>>
     ELSE LET dragDistance ==
                Abs(p.x - draggedWindow.offset.x)
                + Abs(p.y - draggedWindow.offset.y)
              snappedNode == findNodeById(snappedLayout, draggedWindow.id)
          IN IF /\ dragDistance > Px(DRAG_OUT_THRESHOLD)
                /\ snappedNode # Null
                /\ "window" \in DOMAIN snappedNode
             THEN LET w == snappedNode.window
                      newFloatingWindow ==
                        [id |-> w.id, color |-> w.color, title |-> w.title,
                         x |-> p.x - Half(Px(MIN_WIDTH)),
                         y |-> p.y - Half(Px(HEADER_HEIGHT)),
                         width |-> Px(MIN_WIDTH),
                         height |-> Px(MIN_HEIGHT)]
                  IN /\ floatingWindows' =
                          Append(floatingWindows, newFloatingWindow)
                     /\ snappedLayout' =
                          removeNodeById(snappedLayout, draggedWindow.id)
                     /\ draggedWindow' =
                          [id |-> draggedWindow.id, type |-> "floating",
                           offset |-> Pt(Half(Px(MIN_WIDTH)),
                                         Half(Px(HEADER_HEIGHT)))]
                     /\ lastEvent' = Event("handleMouseMove", "dragOut")
                     /\ UNCHANGED <<snapIndicator, created, viewport>>
             ELSE /\ lastEvent' = Event("handleMouseMove", "snapped")
                  /\ UNCHANGED <<floatingWindows, snappedLayout,
                                 draggedWindow, snapIndicator, created, viewport>>

\* handleMouseUp that commits the snap and leaves the window in the floating
\* set.
handleMouseUp_KeepFloating ==
  /\ IF /\ snapIndicator # Null
        /\ draggedWindow # Null
        /\ draggedWindow.type = "floating"
        /\ FindFloating(draggedWindow.id) # Null
     THEN LET floatingWindow == FindFloating(draggedWindow.id)
              windowData == WindowDataOf(floatingWindow)
          IN /\ snappedLayout' =
                  executeSnap(snappedLayout, windowData, snapIndicator)
             /\ floatingWindows' = floatingWindows
             /\ lastEvent' =
                  Event("handleMouseUp",
                        IF HasTarget(snapIndicator) THEN "snapToWindow"
                        ELSE IF snappedLayout # Null THEN "snapToEdge"
                        ELSE "snapFirst")
     ELSE /\ lastEvent' = Event("handleMouseUp", "none")
          /\ UNCHANGED <<floatingWindows, snappedLayout>>
  /\ draggedWindow' = Null
  /\ snapIndicator' = Null
  /\ UNCHANGED <<created, viewport>>

\* handleMouseUp that removes the dragged window from the floating set
\* whether or not an indicator is active.
handleMouseUp_AlwaysRemoves ==
  /\ IF /\ snapIndicator # Null
        /\ draggedWindow # Null
        /\ draggedWindow.type = "floating"
        /\ FindFloating(draggedWindow.id) # Null
     THEN LET floatingWindow == FindFloating(draggedWindow.id)
              windowData == WindowDataOf(floatingWindow)
          IN /\ snappedLayout' =
                  executeSnap(snappedLayout, windowData, snapIndicator)
             /\ floatingWindows' =
                  SelectSeq(floatingWindows,
                            LAMBDA w : w.id # draggedWindow.id)
             /\ lastEvent' =
                  Event("handleMouseUp",
                        IF HasTarget(snapIndicator) THEN "snapToWindow"
                        ELSE IF snappedLayout # Null THEN "snapToEdge"
                        ELSE "snapFirst")
     ELSE /\ lastEvent' = Event("handleMouseUp", "none")
          /\ floatingWindows' =
               IF draggedWindow # Null
               THEN SelectSeq(floatingWindows,
                              LAMBDA w : w.id # draggedWindow.id)
               ELSE floatingWindows
          /\ UNCHANGED snappedLayout
  /\ draggedWindow' = Null
  /\ snapIndicator' = Null
  /\ UNCHANGED <<created, viewport>>

\* handleMouseUp that clears the snap indicator only when it commits a snap.
handleMouseUp_KeepIndicator ==
  /\ IF /\ snapIndicator # Null
        /\ draggedWindow # Null
        /\ draggedWindow.type = "floating"
        /\ FindFloating(draggedWindow.id) # Null
     THEN LET floatingWindow == FindFloating(draggedWindow.id)
              windowData == WindowDataOf(floatingWindow)
          IN /\ snappedLayout' =
                  executeSnap(snappedLayout, windowData, snapIndicator)
             /\ floatingWindows' =
                  SelectSeq(floatingWindows,
                            LAMBDA w : w.id # draggedWindow.id)
             /\ lastEvent' =
                  Event("handleMouseUp",
                        IF HasTarget(snapIndicator) THEN "snapToWindow"
                        ELSE IF snappedLayout # Null THEN "snapToEdge"
                        ELSE "snapFirst")
             /\ snapIndicator' = Null
     ELSE /\ lastEvent' = Event("handleMouseUp", "none")
          /\ UNCHANGED <<floatingWindows, snappedLayout, snapIndicator>>
  /\ draggedWindow' = Null
  /\ UNCHANGED <<created, viewport>>

\* Mouse up over the root element.
handleMouseUp ==
  /\ IF /\ snapIndicator # Null
        /\ draggedWindow # Null
        /\ draggedWindow.type = "floating"
        /\ FindFloating(draggedWindow.id) # Null
     THEN LET floatingWindow == FindFloating(draggedWindow.id)
              windowData == WindowDataOf(floatingWindow)
          IN /\ snappedLayout' =
                  executeSnap(snappedLayout, windowData, snapIndicator)
             /\ floatingWindows' =
                  SelectSeq(floatingWindows,
                            LAMBDA w : w.id # draggedWindow.id)
             /\ lastEvent' =
                  Event("handleMouseUp",
                        IF HasTarget(snapIndicator) THEN "snapToWindow"
                        ELSE IF snappedLayout # Null THEN "snapToEdge"
                        ELSE "snapFirst")
     ELSE /\ lastEvent' = Event("handleMouseUp", "none")
          /\ UNCHANGED <<floatingWindows, snappedLayout>>
  /\ draggedWindow' = Null
  /\ snapIndicator' = Null
  /\ UNCHANGED <<created, viewport>>

\* The button is released where no mouseup reaches the root element (the
\* pointer has left the page during a drag).  The root element has
\* onMouseMove and onMouseUp only, no onMouseLeave and no pointer capture: no
\* handler runs.
mouseUpOutside ==
  /\ draggedWindow # Null
  /\ lastEvent' = Event("mouseUpOutside", "none")
  /\ UNCHANGED <<floatingWindows, snappedLayout, draggedWindow,
                 snapIndicator, created, viewport>>

Next ==
  \/ addFloatingWindow
  \/ \E id \in 1..MaxWindows : deleteFloatingWindow(id)
  \/ \E id \in 1..MaxWindows : deleteSnappedWindow(id)
  \/ \E id \in 1..MaxWindows, o \in DownOffsets :
       handleMouseDownFloating(id, o)
  \/ \E id \in 1..MaxWindows, p \in Points : handleMouseDownSnapped(id, p)
  \/ \E p \in Points : handleMouseMove(p)
  \/ handleMouseUp
  \/ mouseUpOutside

Spec == Init /\ [][Next]_vars

\* The user resizes the browser window.  The component registers no resize
\* listener: no handler runs, and the next handler reads the new rectangle.
resize ==
  /\ \E r \in ViewportSizes : r # viewport /\ viewport' = r
  /\ lastEvent' = Event("resize", "none")
  /\ UNCHANGED <<floatingWindows, snappedLayout, draggedWindow,
                 snapIndicator, created>>

NextResize ==
  \/ Next
  \/ resize

\* The component in a browser window the user resizes.
SpecResize == Init /\ [][NextResize]_vars

\* Two mouse moves, to p and then to q, handled before the component renders
\* again, while a tiled window is dragged: both run the handleMouseMove of
\* the same render, so both read the draggedWindow and snappedLayout of that
\* render, while the updater functions they pass to setFloatingWindows and
\* setSnappedLayout are applied one after the other to the latest value.
\* (While a floating window is dragged the two moves leave what the single
\* move to q leaves: the position and the indicator are written twice.)
\* The pair is taken while fewer than MaxWindows window objects are on
\* screen, so that the number of objects stays bounded.
handleMouseMoveBatch(p, q) ==
  /\ draggedWindow # Null
  /\ draggedWindow.type # "floating"
  /\ WindowObjects < MaxWindows
  /\ LET snappedNode == findNodeById(snappedLayout, draggedWindow.id)
         dragDistance(pt) ==
           Abs(pt.x - draggedWindow.offset.x)
           + Abs(pt.y - draggedWindow.offset.y)
         converts(pt) ==
           /\ dragDistance(pt) > Px(DRAG_OUT_THRESHOLD)
           /\ snappedNode # Null
           /\ "window" \in DOMAIN snappedNode
         newFloatingWindow(pt) ==
           [id |-> snappedNode.window.id,
            color |-> snappedNode.window.color,
            title |-> snappedNode.window.title,
            x |-> pt.x - Half(Px(MIN_WIDTH)),
            y |-> pt.y - Half(Px(HEADER_HEIGHT)),
            width |-> Px(MIN_WIDTH), height |-> Px(MIN_HEIGHT)]
         floatingUpdater(prev, pt) ==
           IF converts(pt) THEN Append(prev, newFloatingWindow(pt))
           ELSE prev
         layoutUpdater(prev, pt) ==
           IF converts(pt) THEN removeNodeById(prev, draggedWindow.id)
           ELSE prev
     IN /\ floatingWindows' =
             floatingUpdater(floatingUpdater(floatingWindows, p), q)
        /\ snappedLayout' =
             layoutUpdater(layoutUpdater(snappedLayout, p), q)
        /\ draggedWindow' =
             IF converts(p) \/ converts(q)
             THEN [id |-> draggedWindow.id, type |-> "floating",
                   offset |-> Pt(Half(Px(MIN_WIDTH)),
                                 Half(Px(HEADER_HEIGHT)))]
             ELSE draggedWindow
        /\ lastEvent' =
             Event("handleMouseMoveBatch",
                   IF converts(p) /\ converts(q) THEN "dragOutTwice"
                   ELSE IF converts(p) \/ converts(q) THEN "dragOut"
                   ELSE "snapped")
  /\ UNCHANGED <<snapIndicator, created, viewport>>

NextBatched ==
  \/ Next
  \/ \E p \in Points, q \in Points : handleMouseMoveBatch(p, q)

\* The component when React may handle two mouse moves in one render.
SpecBatched == Init /\ [][NextBatched]_vars

\* What one rendered window element shows.
Element(kind, id, bounds, color, title) ==
  [kind |-> kind, id |-> id, bounds |-> bounds, color |-> color,
   title |-> title]

\* ------------------------------------------------------------------------
\* Claude.tsx, the component main.tsx mounts.  Its state hooks,
\* addFloatingWindow, the delete handlers, removeNodeById, findNodeById and
\* handleMouseDown read as those above; what differs is modelled here.
\* ------------------------------------------------------------------------

\* A number v is held as v * SubPixel, a pixel length and a fraction of the
\* parent alike: One is 1, Half(One) is 0.5, Times is the product.
One == SubPixel
Times(a, b) == (a * b) \div SubPixel

calculateAbsolutePosition(node, parentBounds) ==
  Rect(parentBounds.x + Times(node.bounds.x, parentBounds.width),
       parentBounds.y + Times(node.bounds.y, parentBounds.height),
       Times(node.bounds.width, parentBounds.width),
       Times(node.bounds.height, parentBounds.height))

RECURSIVE Claude_findSnapTargetInNode(_, _, _, _)
Claude_findSnapTargetInNode(node, mouseX, mouseY, parentBounds) ==
  LET absolutePos == calculateAbsolutePosition(node, parentBounds)
  IN
  IF /\ mouseX >= absolutePos.x
     /\ mouseX <= absolutePos.x + absolutePos.width
     /\ mouseY >= absolutePos.y
     /\ mouseY <= absolutePos.y + absolutePos.height
  THEN
    IF IsWindow(node)
    THEN LET threshold == Px(SNAP_THRESHOLD)
             relativeX == mouseX - absolutePos.x
             relativeY == mouseY - absolutePos.y
             isWiderThanTall == absolutePos.width > absolutePos.height
             b == absolutePos
         IN IF isWiderThanTall
            THEN IF relativeY <= threshold
                 THEN NodeIndicator(
                        Rect(b.x, b.y, b.width, Half(b.height)),
                        "top", node.id)
                 ELSE IF relativeY >= b.height - threshold
                 THEN NodeIndicator(
                        Rect(b.x, b.y + Half(b.height), b.width,
                             Half(b.height)),
                        "bottom", node.id)
                 ELSE Null
            ELSE IF relativeX <= threshold
                 THEN NodeIndicator(
                        Rect(b.x, b.y, Half(b.width), b.height),
                        "left", node.id)
                 ELSE IF relativeX >= b.width - threshold
                 THEN NodeIndicator(
                        Rect(b.x + Half(b.width), b.y, Half(b.width),
                             b.height),
                        "right", node.id)
                 ELSE Null
    ELSE IF IsContainer(node)
    THEN LET ch == node.container.children
             RECURSIVE First(_)
             First(i) ==
               IF i > Len(ch) THEN Null
               ELSE LET result ==
                          Claude_findSnapTargetInNode(ch[i], mouseX, mouseY,
                                                      absolutePos)
                    IN IF result # Null THEN result ELSE First(i + 1)
         IN First(1)
    ELSE Null
  ELSE Null

Claude_getSnapTarget(mouseX, mouseY, rect, layout) ==
  LET threshold == Px(SNAP_THRESHOLD)
  IN IF mouseX <= threshold
     THEN EdgeIndicator(Rect(0, 0, Half(rect.width), rect.height), "left")
     ELSE IF mouseX >= rect.width - threshold
     THEN EdgeIndicator(
            Rect(Half(rect.width), 0, Half(rect.width), rect.height), "right")
     ELSE IF mouseY <= threshold
     THEN EdgeIndicator(Rect(0, 0, rect.width, Half(rect.height)), "top")
     ELSE IF mouseY >= rect.height - threshold
     THEN EdgeIndicator(
            Rect(0, Half(rect.height), rect.width, Half(rect.height)),
            "bottom")
     ELSE IF layout # Null
     THEN Claude_findSnapTargetInNode(layout, mouseX, mouseY,
                                      Rect(0, 0, rect.width, rect.height))
     ELSE Null

\* cid is the value getId() returns for the container the call creates.
RECURSIVE Claude_snapToExistingWindow(_, _, _, _, _)
Claude_snapToExistingWindow(layout, targetId, newWindow, side, cid) ==
  IF layout = Null THEN Null
  ELSE IF layout.id = targetId /\ IsWindow(layout)
  THEN LET direction == DirectionOf(side)
           isNewWindowFirst == side = "left" \/ side = "top"
           firstBounds ==
             IF direction = "horizontal"
             THEN Rect(0, 0, Half(One), One)
             ELSE Rect(0, 0, One, Half(One))
           secondBounds ==
             IF direction = "horizontal"
             THEN Rect(Half(One), 0, Half(One), One)
             ELSE Rect(0, Half(One), One, Half(One))
           newWindowNode == WindowNode(newWindow, Rect(0, 0, One, One))
           existingWindowNode == [layout EXCEPT !.bounds = Rect(0, 0, One, One)]
           children ==
             IF isNewWindowFirst
             THEN <<newWindowNode, existingWindowNode>>
             ELSE <<existingWindowNode, newWindowNode>>
       IN ContainerNode(cid, direction,
                        <<[children[1] EXCEPT !.bounds = firstBounds],
                          [children[2] EXCEPT !.bounds = secondBounds]>>,
                        layout.bounds)
  ELSE IF IsContainer(layout)
  THEN [layout EXCEPT !.container.children =
          [i \in 1..Len(layout.container.children) |->
             LET child == layout.container.children[i]
                 r == Claude_snapToExistingWindow(child, targetId, newWindow,
                                                  side, cid)
             IN IF r # Null THEN r ELSE child]]
  ELSE layout

\* The tree Claude.tsx's executeSnap stores with setSnappedLayout.  The lines
\* that would write the children's bounds are commented out in the source.
Claude_executeSnap(layout, windowData, indicator) ==
  IF HasTarget(indicator)
  THEN Claude_snapToExistingWindow(layout, indicator.targetNodeId,
                                   windowData, indicator.side,
                                   FreshContainerId(layout))
  ELSE LET newWindowNode ==
             WindowNode(windowData, Rect(indicator.x, indicator.y,
                                         indicator.width, indicator.height))
       IN IF layout # Null
          THEN LET direction == DirectionOf(indicator.side)
                   isFirstChild ==
                     indicator.side = "left" \/ indicator.side = "top"
                   children ==
                     IF isFirstChild THEN <<newWindowNode, layout>>
                     ELSE <<layout, newWindowNode>>
               IN ContainerNode(FreshContainerId(layout), direction,
                                children, Rect(0, 0, One, One))
          ELSE newWindowNode

\* The rectangles Claude.tsx's renderSnappedNode draws, in document order:
\* a window is drawn at node.bounds as it is stored; absolutePos is computed
\* and handed to the children, and used for nothing else.
RECURSIVE Claude_renderSnappedNode(_, _)
Claude_renderSnappedNode(node, parentBounds) ==
  LET absolutePos == calculateAbsolutePosition(node, parentBounds)
  IN IF IsWindow(node) /\ "window" \in DOMAIN node
     THEN <<Element("snapped", node.id, node.bounds, node.window.color,
                    node.window.title)>>
     ELSE IF IsContainer(node)
     THEN LET ch == node.container.children
              RECURSIVE Concat(_)
              Concat(i) ==
                IF i > Len(ch) THEN << >>
                ELSE Claude_renderSnappedNode(ch[i], absolutePos)
                       \o Concat(i + 1)
          IN Concat(1)
     ELSE << >>

\* Claude.tsx: mouse move to p over the root element.
Claude_handleMouseMove(p) ==
  /\ draggedWindow # Null
  /\ IF draggedWindow.type = "floating"
     THEN LET newX == p.x - draggedWindow.offset.x
              newY == p.y - draggedWindow.offset.y
          IN /\ floatingWindows' =
                  [i \in 1..Len(floatingWindows) |->
                     IF floatingWindows[i].id = draggedWindow.id
                     THEN [floatingWindows[i] EXCEPT !.x = newX, !.y = newY]
                     ELSE floatingWindows[i]]
             /\ snapIndicator' =
                  Claude_getSnapTarget(p.x, p.y, containerRect, snappedLayout)
             /\ lastEvent' = Event("handleMouseMove", "floating")
             /\ UNCHANGED <<snappedLayout, draggedWindow, created, viewport>>
     ELSE LET dragDistance ==
                Abs(p.x - draggedWindow.offset.x)
                + Abs(p.y - draggedWindow.offset.y)
              snappedNode == findNodeById(snappedLayout, draggedWindow.id)
          IN IF /\ dragDistance > Px(DRAG_OUT_THRESHOLD)
                /\ snappedNode # Null
                /\ "window" \in DOMAIN snappedNode
             THEN LET w == snappedNode.window
                      newFloatingWindow ==
                        [id |-> w.id, color |-> w.color, title |-> w.title,
                         x |-> p.x - Half(Px(MIN_WIDTH)),
                         y |-> p.y - Half(Px(HEADER_HEIGHT)),
                         width |-> Px(MIN_WIDTH),
                         height |-> Px(MIN_HEIGHT)]
                  IN /\ floatingWindows' =
                          Append(floatingWindows, newFloatingWindow)
                     /\ snappedLayout' =
                          removeNodeById(snappedLayout, draggedWindow.id)
                     /\ draggedWindow' =
                          [id |-> draggedWindow.id, type |-> "floating",
                           offset |-> Pt(Half(Px(MIN_WIDTH)),
                                         Half(Px(HEADER_HEIGHT)))]
                     /\ lastEvent' = Event("handleMouseMove", "dragOut")
                     /\ UNCHANGED <<snapIndicator, created, viewport>>
             ELSE /\ lastEvent' = Event("handleMouseMove", "snapped")
                  /\ UNCHANGED <<floatingWindows, snappedLayout,
                                 draggedWindow, snapIndicator, created, viewport>>


\* Claude.tsx: mouse up over the root element.  setLastSnapDirection writes
\* a value that is only logged.
Claude_handleMouseUp ==
  /\ IF /\ snapIndicator # Null
        /\ draggedWindow # Null
        /\ draggedWindow.type = "floating"
        /\ FindFloating(draggedWindow.id) # Null
     THEN LET floatingWindow == FindFloating(draggedWindow.id)
              windowData == WindowDataOf(floatingWindow)
          IN /\ snappedLayout' =
                  Claude_executeSnap(snappedLayout, windowData, snapIndicator)
             /\ floatingWindows' =
                  SelectSeq(floatingWindows,
                            LAMBDA w : w.id # draggedWindow.id)
             /\ lastEvent' =
                  Event("handleMouseUp",
                        IF HasTarget(snapIndicator) THEN "snapToWindow"
                        ELSE IF snappedLayout # Null THEN "snapToEdge"
                        ELSE "snapFirst")
     ELSE /\ lastEvent' = Event("handleMouseUp", "none")
          /\ UNCHANGED <<floatingWindows, snappedLayout>>
  /\ draggedWindow' = Null
  /\ snapIndicator' = Null
  /\ UNCHANGED <<created, viewport>>

NextClaude ==
  \/ addFloatingWindow
  \/ \E id \in 1..MaxWindows : deleteFloatingWindow(id)
  \/ \E id \in 1..MaxWindows : deleteSnappedWindow(id)
  \/ \E id \in 1..MaxWindows, o \in DownOffsets :
       handleMouseDownFloating(id, o)
  \/ \E id \in 1..MaxWindows, p \in Points : handleMouseDownSnapped(id, p)
  \/ \E p \in Points : Claude_handleMouseMove(p)
  \/ Claude_handleMouseUp

\* The component of Claude.tsx.
SpecClaude == Init /\ [][NextClaude]_vars

\* ------------------------------------------------------------------------
\* Vocabulary of the properties
\* ------------------------------------------------------------------------
ViewportRect == Rect(0, 0, containerRect.width, containerRect.height)
PxRect(rx, ry, rw, rh) == Rect(Px(rx), Px(ry), Px(rw), Px(rh))

ContainersOf(node) == { n \in NodeSet(node) : IsContainer(n) }
WindowsOf(node) == { n \in NodeSet(node) : IsWindow(n) }

\* The tree with the node called id replaced by new.
RECURSIVE ReplaceNode(_, _, _)
ReplaceNode(node, id, new) ==
  IF node.id = id THEN new
  ELSE IF IsContainer(node)
       THEN [node EXCEPT !.container.children =
               [i \in 1..Len(node.container.children) |->
                  ReplaceNode(node.container.children[i], id, new)]]
       ELSE node

\* first and second lie side by side along direction and fill whole exactly.
TilesExactly(whole, direction, first, second) ==
  /\ first.x = whole.x
  /\ first.y = whole.y
  /\ IF direction = "horizontal"
     THEN /\ second.x = first.x + first.width
          /\ second.y = whole.y
          /\ first.width + second.width = whole.width
          /\ first.height = whole.height
          /\ second.height = whole.height
     ELSE /\ second.y = first.y + first.height
          /\ second.x = whole.x
          /\ first.height + second.height = whole.height
          /\ first.width = whole.width
          /\ second.width = whole.width

\* first and second are the two equal halves of whole along direction.
ExactHalves(whole, direction, first, second) ==
  /\ TilesExactly(whole, direction, first, second)
  /\ first.width = second.width
  /\ first.height = second.height

\* A window that is in no tree and in no floating set: the argument of an
\* insert that is tried on the current tree.
ProbeWindow == [id |-> 0, color |-> 0, title |-> 0]

\* The indicators getSnapTarget builds for the four screen edges.
ScreenEdgeIndicator(side) ==
  EdgeIndicator(getWindowConfig(side, containerRect), side)

\* Pointer positions the resolver is tried on: a grid that has points on
\* both sides of every threshold of the viewport and of its halves.
ProbeXs == {0, 5, 30, 31, 100, 200, 369, 370, 380, 400, 420, 430, 431,
            600, 769, 770, 795, 800}
ProbeYs == {0, 5, 30, 31, 150, 269, 270, 300, 310, 330, 331, 450, 569,
            570, 595, 600}
ProbePoints == { PxPt(px, py) : px \in ProbeXs, py \in ProbeYs }

\* The screen edges a pointer is within SNAP_THRESHOLD of.
NearScreenEdges(p) ==
  { side \in Sides :
      \/ side = "left" /\ p.x <= Px(SNAP_THRESHOLD)
      \/ side = "right" /\ p.x >= containerRect.width - Px(SNAP_THRESHOLD)
      \/ side = "top" /\ p.y <= Px(SNAP_THRESHOLD)
      \/ side = "bottom" /\ p.y >= containerRect.height - Px(SNAP_THRESHOLD) }

IndicatorRect(ind) == Rect(ind.x, ind.y, ind.width, ind.height)

StrictlyInside(p, b) ==
  /\ b.x < p.x /\ p.x < b.x + b.width
  /\ b.y < p.y /\ p.y < b.y + b.height

\* ------------------------------------------------------------------------
\* Properties
\* ------------------------------------------------------------------------

\* C1: in every reachable state every Container of the snap tree has exactly
\* two children, and their bounds tile the container's bounds along its
\* direction with no gap and no overlap.
C1_ContainersTile ==
  \A n \in ContainersOf(snappedLayout) :
    /\ Len(n.container.children) = 2
    /\ TilesExactly(n.bounds, n.container.direction,
                    n.container.children[1].bounds,
                    n.container.children[2].bounds)

\* C2: in every reachable state the snap tree is null or its root's bounds
\* are the full viewport rectangle; the first window snapped onto the empty
\* tree is the sole root with the full viewport as its bounds.
C2_RootFillsViewport ==
  snappedLayout # Null => snappedLayout.bounds = ViewportRect

\* C3 (promotion law): for every two-child Container K of the tree and every
\* child c of K that is a Window, removing c.id yields the tree with K
\* replaced by K's other child, whose bounds are K's former bounds.
C3_PromotionLaw ==
  \A k \in ContainersOf(snappedLayout) :
    \A i \in 1..2 :
      LET c == k.container.children[i]
          other == k.container.children[3 - i]
      IN IsWindow(c) =>
           removeNodeById(snappedLayout, c.id)
             = ReplaceNode(snappedLayout, k.id,
                           [other EXCEPT !.bounds = k.bounds])

\* A tiled window was deleted and its sibling, promoted to the root, has the
\* bounds of the root container that was removed.
C3_Witness ==
  /\ lastEvent.op = "deleteSnappedWindow"
  /\ snappedLayout # Null
  /\ IsWindow(snappedLayout)
  /\ snappedLayout.bounds = ViewportRect

\* What insertAdjacent must make of leaf t: r is the tree after the insert of
\* window data w at side, cid the id of the container the insert creates.
AdjacentInsertDone(tree, t, w, side, cid, r) ==
  LET k == findNodeById(r, cid)
  IN /\ k # Null
     /\ IsContainer(k)
     /\ r = ReplaceNode(tree, t.id, k)
     /\ k.bounds = t.bounds
     /\ k.container.direction
          = (IF side \in {"left", "right"} THEN "horizontal" ELSE "vertical")
     /\ Len(k.container.children) = 2
     /\ LET newFirst == side \in {"left", "top"}
            n == k.container.children[IF newFirst THEN 1 ELSE 2]
            e == k.container.children[IF newFirst THEN 2 ELSE 1]
        IN /\ IsWindow(n) /\ n.id = w.id /\ n.window = w
           /\ e = [t EXCEPT !.bounds = e.bounds]
           /\ ExactHalves(t.bounds, k.container.direction,
                          k.container.children[1].bounds,
                          k.container.children[2].bounds)

\* C4 (nested insert): for a Window leaf T at any depth, insertAdjacent
\* replaces T in place by a Container with T's former bounds, direction by
\* side, the new window first iff side is left or top, and the two exact
\* halves of T's former bounds as the children's bounds.  In an 800x600
\* viewport with Container[A {0,0,400,600}, B {400,0,400,600}], inserting C
\* at the top of A yields C at {0,0,400,300} and A at {0,300,400,300}.
C4_NestedInsert ==
  /\ \A t \in WindowsOf(snappedLayout), side \in Sides :
       LET cid == FreshContainerId(snappedLayout)
       IN AdjacentInsertDone(
            snappedLayout, t, ProbeWindow, side, cid,
            snapToExistingWindow(snappedLayout, t.id, ProbeWindow, side,
                                 cid))
  /\ ( /\ snappedLayout # Null
       /\ IsContainer(snappedLayout)
       /\ snappedLayout.bounds = ViewportRect
       /\ IsWindow(snappedLayout.container.children[1])
       /\ IsWindow(snappedLayout.container.children[2])
       /\ snappedLayout.container.children[1].bounds
            = PxRect(0, 0, 400, 600)
       /\ snappedLayout.container.children[2].bounds
            = PxRect(400, 0, 400, 600) )
     => LET a == snappedLayout.container.children[1]
            cid == FreshContainerId(snappedLayout)
            r == snapToExistingWindow(snappedLayout, a.id, ProbeWindow,
                                      "top", cid)
            k == r.container.children[1]
        IN /\ k.id = cid
           /\ k.container.children[1].id = ProbeWindow.id
           /\ k.container.children[1].bounds = PxRect(0, 0, 400, 300)
           /\ k.container.children[2].id = a.id
           /\ k.container.children[2].bounds = PxRect(0, 300, 400, 300)

\* A window was dropped on a tiled window below the root: the root is a
\* Container one of whose children is the Container the drop created.
C4_Witness ==
  /\ lastEvent = Event("handleMouseUp", "snapToWindow")
  /\ snappedLayout # Null
  /\ IsContainer(snappedLayout)
  /\ \E i \in 1..2 :
       LET k == snappedLayout.container.children[i]
       IN /\ IsContainer(k)
          /\ IsWindow(k.container.children[1])
          /\ IsWindow(k.container.children[2])
          /\ ExactHalves(k.bounds, k.container.direction,
                         k.container.children[1].bounds,
                         k.container.children[2].bounds)

\* The fields of a node that an insert elsewhere must leave alone; the ids
\* of a container's children are taken with the replaced leaf's id read as
\* the id of the container that took its place.
ChildIds(node, from, to) ==
  [i \in 1..Len(node.container.children) |->
     IF node.container.children[i].id = from THEN to
     ELSE node.container.children[i].id]

SameNode(n, m, from, to) ==
  /\ m # Null
  /\ m.id = n.id
  /\ m.type = n.type
  /\ m.bounds = n.bounds
  /\ IsWindow(n) => m.window = n.window
  /\ IsContainer(n) =>
       /\ m.container.direction = n.container.direction
       /\ m.container.splitRatio = n.container.splitRatio
       /\ ChildIds(m, from, to) = ChildIds(n, from, to)

\* C5: insertAdjacent leaves every node outside the replaced target's
\* subtree unchanged: id, type, direction, splitRatio, child order, bounds.
C5_InsertAdjacentFrame ==
  \A t \in WindowsOf(snappedLayout), side \in Sides :
    LET cid == FreshContainerId(snappedLayout)
        r == snapToExistingWindow(snappedLayout, t.id, ProbeWindow, side,
                                  cid)
    IN \A n \in NodeSet(snappedLayout) :
         n.id # t.id => SameNode(n, findNodeById(r, n.id), t.id, cid)

\* A window was dropped on a tiled window while the tree held two other
\* nodes outside the target.
C5_Witness ==
  /\ lastEvent = Event("handleMouseUp", "snapToWindow")
  /\ Cardinality(WindowsOf(snappedLayout)) = 3
  /\ Cardinality(ContainersOf(snappedLayout)) = 2

\* C6: insertAtEdge on a non-empty tree, for any side, yields a fresh
\* Container with the full viewport as bounds whose children are the new
\* window and the entire previous tree; direction by side; the new window
\* first iff side is left or top; the children's bounds are the two exact
\* halves of the container's bounds.
C6_InsertAtEdge ==
  snappedLayout # Null =>
    \A side \in Sides :
      LET r == executeSnap(snappedLayout, ProbeWindow,
                           ScreenEdgeIndicator(side))
          newFirst == side \in {"left", "top"}
          n == r.container.children[IF newFirst THEN 1 ELSE 2]
          old == r.container.children[IF newFirst THEN 2 ELSE 1]
      IN /\ IsContainer(r)
         /\ r.id \notin UsedContainerIds(snappedLayout)
         /\ r.bounds = ViewportRect
         /\ r.container.direction
              = (IF side \in {"left", "right"} THEN "horizontal"
                 ELSE "vertical")
         /\ Len(r.container.children) = 2
         /\ IsWindow(n) /\ n.id = ProbeWindow.id /\ n.window = ProbeWindow
         /\ old = [snappedLayout EXCEPT !.bounds = old.bounds]
         /\ ExactHalves(r.bounds, r.container.direction,
                        r.container.children[1].bounds,
                        r.container.children[2].bounds)

\* A window was dropped on a screen edge while the tree was not empty.
C6_Witness ==
  /\ lastEvent = Event("handleMouseUp", "snapToEdge")
  /\ IsContainer(snappedLayout)
  /\ snappedLayout.bounds = ViewportRect
  /\ IsWindow(snappedLayout.container.children[1])

\* The ids of the floating windows followed by the ids of the tiled windows.
AllWindowIds ==
  [i \in 1..Len(floatingWindows) |-> floatingWindows[i].id]
    \o [i \in 1..Len(Leaves(snappedLayout)) |-> Leaves(snappedLayout)[i].id]

\* C7: window ids are unique across the floating set and the Window leaves
\* of the tree taken together.
C7_IdsUnique ==
  \A i, j \in 1..Len(AllWindowIds) :
    i # j => AllWindowIds[i] # AllWindowIds[j]

\* A tiled window was dragged out while another window floats and another
\* is tiled.
C7_Witness ==
  /\ lastEvent = Event("handleMouseMove", "dragOut")
  /\ Len(floatingWindows) = 2
  /\ snappedLayout # Null

\* C8 (round trip): inserting a window at any edge of the empty tree and
\* then removing that window's id returns the tree to null.
C8_RoundTrip ==
  /\ \A i \in 1..Len(floatingWindows), side \in Sides :
       LET w == WindowDataOf(floatingWindows[i])
           t == executeSnap(Null, w, ScreenEdgeIndicator(side))
       IN /\ t # Null
          /\ w.id \in LeafIds(t)
          /\ removeNodeById(t, w.id) = Null
  /\ lastEvent = Event("handleMouseUp", "snapFirst") =>
       /\ snappedLayout # Null
       /\ removeNodeById(snappedLayout, snappedLayout.id) = Null

\* The first window was just snapped onto the empty tree.
C8_Witness ==
  /\ lastEvent = Event("handleMouseUp", "snapFirst")
  /\ snappedLayout # Null
  /\ IsWindow(snappedLayout)

\* C9 (resolver priority): for every tree, a pointer within SNAP_THRESHOLD
\* of a viewport edge resolves to the half-viewport indicator of a screen
\* edge it is near, with no targetNodeId; pointer (5, 300) in the 800x600
\* viewport yields side = left, bounds {0,0,400,600}, no targetNodeId.
C9_ScreenEdgePriority ==
  /\ \A p \in ProbePoints :
       NearScreenEdges(p) # {} =>
         LET r == getSnapTarget(p.x, p.y, containerRect, snappedLayout)
         IN /\ r # Null
            /\ ~HasTarget(r)
            /\ r.side \in NearScreenEdges(p)
            /\ IndicatorRect(r) = getWindowConfig(r.side, containerRect)
  /\ LET r == getSnapTarget(Px(5), Px(300), containerRect, snappedLayout)
     IN /\ r.side = "left"
        /\ IndicatorRect(r) = PxRect(0, 0, 400, 600)
        /\ ~HasTarget(r)

\* A floating window is dragged to the left screen edge, where the edge of a
\* tiled window is as near: the indicator is the screen edge's.
C9_Witness ==
  /\ lastEvent = Event("handleMouseMove", "floating")
  /\ snapIndicator = ScreenEdgeIndicator("left")
  /\ snappedLayout # Null
  /\ findSnapTargetInNode(snappedLayout, Px(5), Px(300)) # Null

\* What the leaf rule gives for pointer p inside Window leaf l.
LeafRule(l, p) ==
  LET b == l.bounds
      t == Px(SNAP_THRESHOLD)
  IN IF b.width > b.height
     THEN IF p.y - b.y <= t
          THEN NodeIndicator(Rect(b.x, b.y, b.width, Half(b.height)),
                             "top", l.id)
          ELSE IF (b.y + b.height) - p.y <= t
          THEN NodeIndicator(
                 Rect(b.x, b.y + Half(b.height), b.width, Half(b.height)),
                 "bottom", l.id)
          ELSE Null
     ELSE IF b.height > b.width
     THEN IF p.x - b.x <= t
          THEN NodeIndicator(Rect(b.x, b.y, Half(b.width), b.height),
                             "left", l.id)
          ELSE IF (b.x + b.width) - p.x <= t
          THEN NodeIndicator(
                 Rect(b.x + Half(b.width), b.y, Half(b.width), b.height),
                 "right", l.id)
          ELSE Null
     ELSE Null

\* C10 (resolver leaf rule): when the pointer is farther than SNAP_THRESHOLD
\* from every viewport edge and lies inside Window leaf L, the resolver
\* returns the half of L at the edge of L's dominant axis the pointer is
\* within SNAP_THRESHOLD of, with targetNodeId = L.id, and none otherwise.
C10_LeafRule ==
  \A p \in ProbePoints :
    NearScreenEdges(p) = {} =>
      \A l \in WindowsOf(snappedLayout) :
        StrictlyInside(p, l.bounds) =>
          getSnapTarget(p.x, p.y, containerRect, snappedLayout)
            = LeafRule(l, p)

\* The state is Dragging(Snapped, W) of a window W that is tiled.
DraggingTiled ==
  /\ draggedWindow # Null
  /\ draggedWindow.type = "snapped"
  /\ draggedWindow.id \in LeafIds(snappedLayout)

\* The state is Dragging(Floating, id).
DraggingFloating ==
  /\ draggedWindow # Null
  /\ draggedWindow.type = "floating"

\* The displacement of pointer p from the down-point d.
Displacement(p, d) == Abs(p.x - d.x) + Abs(p.y - d.y)

\* C11 (drag-out): in Dragging(Snapped, W) with down-point d, a pointer-move
\* to p whose displacement from d exceeds DRAG_OUT_THRESHOLD makes the tree
\* remove(tree, W.id), appends to the floating set exactly one window, with
\* W's id and payload, at p - (100, 20), and makes the drag state
\* Dragging(Floating, W.id, offset = (100, 20)).
C11_DragOut ==
  [][\A p \in Points :
       (/\ DraggingTiled
        /\ Displacement(p, draggedWindow.offset) > Px(DRAG_OUT_THRESHOLD)
        /\ handleMouseMove(p))
       => LET W == findNodeById(snappedLayout, draggedWindow.id)
          IN /\ snappedLayout' = removeNodeById(snappedLayout, W.id)
             /\ Len(floatingWindows') = Len(floatingWindows) + 1
             /\ SubSeq(floatingWindows', 1, Len(floatingWindows))
                  = floatingWindows
             /\ LET f == floatingWindows'[Len(floatingWindows')]
                IN /\ f.id = W.id
                   /\ WindowDataOf(f) = W.window
                   /\ f.x = p.x - Px(100)
                   /\ f.y = p.y - Px(20)
             /\ W.id \notin FloatingIds
             /\ draggedWindow' =
                  [id |-> W.id, type |-> "floating", offset |-> PxPt(100, 20)]
    ]_vars

\* A tiled window of a two-window tree was just dragged out: the tree is its
\* sibling, promoted, and the window floats under the pointer.
C11_Witness ==
  /\ lastEvent = Event("handleMouseMove", "dragOut")
  /\ snappedLayout # Null
  /\ IsWindow(snappedLayout)
  /\ draggedWindow # Null
  /\ draggedWindow.type = "floating"
  /\ draggedWindow.offset = PxPt(100, 20)
  /\ draggedWindow.id \in FloatingIds
  /\ draggedWindow.id \notin LeafIds(snappedLayout)

\* The number of Window leaves of a tree that carry id.
LeafCount(tree, id) ==
  Cardinality({ i \in 1..Len(Leaves(tree)) : Leaves(tree)[i].id = id })

\* Pointer-up would commit a snap: Dragging(Floating, id) of a window of the
\* floating set, with an active indicator.
CommitEnabled ==
  /\ DraggingFloating
  /\ snapIndicator # Null
  /\ draggedWindow.id \in FloatingIds

\* C12 (snap commit): pointer-up in Dragging(Floating, id) with an active
\* indicator removes window id from the floating set and makes it exactly one
\* Window leaf of the tree, inserted by insertAdjacent at the indicator's
\* targetNodeId when present and by insertAtEdge on the indicator's side
\* otherwise.
C12_SnapCommit ==
  [][(CommitEnabled /\ handleMouseUp)
       => LET id == draggedWindow.id
              w == WindowDataOf(FindFloating(id))
          IN /\ floatingWindows'
                  = SelectSeq(floatingWindows, LAMBDA f : f.id # id)
             /\ LeafCount(snappedLayout', id) = 1
             /\ findNodeById(snappedLayout', id).window = w
             /\ snappedLayout' =
                  IF HasTarget(snapIndicator)
                  THEN snapToExistingWindow(
                         snappedLayout, snapIndicator.targetNodeId, w,
                         snapIndicator.side, FreshContainerId(snappedLayout))
                  ELSE executeSnap(
                         snappedLayout, w,
                         EdgeIndicator(IndicatorRect(snapIndicator),
                                       snapIndicator.side))
    ]_vars

\* The indicator names a target that is not a Window leaf of the tree.
InvalidTarget ==
  /\ snapIndicator # Null
  /\ HasTarget(snapIndicator)
  /\ snapIndicator.targetNodeId \notin LeafIds(snappedLayout)

\* C13 (invalid snap target): a commit with an indicator whose targetNodeId
\* is not the id of a Window leaf of the current tree leaves the tree
\* unchanged and the dragged window in the floating set; and every commit
\* either puts the window in the tree or leaves both the tree and the
\* floating set as they were.
C13_InvalidTargetNoOp ==
  [][(CommitEnabled /\ handleMouseUp)
       => /\ InvalidTarget =>
               /\ snappedLayout' = snappedLayout
               /\ floatingWindows' = floatingWindows
          /\ \/ draggedWindow.id \in LeafIds(snappedLayout')
             \/ /\ snappedLayout' = snappedLayout
                /\ floatingWindows' = floatingWindows
    ]_vars

\* C14: every pointer-up, in any drag state and whether or not a snap is
\* committed, leaves the controller Idle (no dragged window) with the snap
\* indicator cleared.
C14_PointerUpIdle ==
  [][handleMouseUp => (draggedWindow' = Null /\ snapIndicator' = Null)]_vars

\* A pointer-up that committed no snap has just run with windows floating and
\* tiled: the controller is Idle and no indicator shows.
C14_Witness ==
  /\ lastEvent = Event("handleMouseUp", "none")
  /\ draggedWindow = Null
  /\ snapIndicator = Null
  /\ snappedLayout # Null
  /\ Len(floatingWindows) > 0

\* The state is Dragging(Snapped, id), whether or not id is still tiled.
DraggingSnapped ==
  /\ draggedWindow # Null
  /\ draggedWindow.type = "snapped"

C16_FloatingMoveFrame ==
  [][\A p \in Points :
       /\ (DraggingFloating /\ handleMouseMove(p))
            => /\ Len(floatingWindows') = Len(floatingWindows)
               /\ \A i \in 1..Len(floatingWindows) :
                    floatingWindows'[i] =
                      IF floatingWindows[i].id = draggedWindow.id
                      THEN [floatingWindows[i] EXCEPT
                              !.x = p.x - draggedWindow.offset.x,
                              !.y = p.y - draggedWindow.offset.y]
                      ELSE floatingWindows[i]
               /\ UNCHANGED <<snappedLayout, draggedWindow>>
       /\ (DraggingSnapped /\ handleMouseMove(p)
             /\ draggedWindow'.type = "floating")
            => LET f == floatingWindows'[Len(floatingWindows')]
               IN /\ f.id = draggedWindow'.id
                  /\ f.x - p.x = 0 - draggedWindow'.offset.x
                  /\ f.y - p.y = 0 - draggedWindow'.offset.y
    ]_vars

\* The second floating window was just moved with the pointer at (380, 300),
\* the first one is where it was created, and a window is tiled.
C16_Witness ==
  /\ lastEvent = Event("handleMouseMove", "floating")
  /\ DraggingFloating
  /\ Len(floatingWindows) = 2
  /\ floatingWindows[2].id = draggedWindow.id
  /\ Pt(floatingWindows[2].x, floatingWindows[2].y) = PxPt(280, 280)
  /\ Pt(floatingWindows[1].x, floatingWindows[1].y) = PxPt(100, 280)
  /\ snappedLayout # Null

\* C17: pointer-up while Dragging(Floating) with no active indicator leaves
\* the dragged window in the floating set at the position the last
\* pointer-move gave it, and leaves the tree and all other floating windows
\* unchanged.
C17_DropWithoutIndicator ==
  [][(DraggingFloating /\ snapIndicator = Null /\ handleMouseUp)
       => UNCHANGED <<floatingWindows, snappedLayout>>]_vars

\* The only window was dragged to pointer (130, 50), away from every screen
\* edge and with nothing tiled, and released: it floats at (30, 30).
C17_Witness ==
  /\ lastEvent = Event("handleMouseUp", "none")
  /\ created = 1
  /\ snappedLayout = Null
  /\ Len(floatingWindows) = 1
  /\ Pt(floatingWindows[1].x, floatingWindows[1].y) = PxPt(30, 30)

\* C18: delete actions are confined to their own set: deleting a floating
\* window removes exactly that window from the floating set (the others keep
\* their order) and leaves the tree unchanged; deleting a tiled window
\* replaces the tree by remove(tree, id) and leaves the floating set
\* unchanged.
C18_DeleteConfined ==
  [][\A id \in 1..MaxWindows :
       /\ deleteFloatingWindow(id)
            => /\ \E k \in 1..Len(floatingWindows) :
                    /\ floatingWindows[k].id = id
                    /\ floatingWindows' =
                         SubSeq(floatingWindows, 1, k - 1)
                           \o SubSeq(floatingWindows, k + 1,
                                     Len(floatingWindows))
               /\ UNCHANGED snappedLayout
       /\ deleteSnappedWindow(id)
            => /\ snappedLayout' = removeNodeById(snappedLayout, id)
               /\ id \notin LeafIds(snappedLayout')
               /\ LeafIds(snappedLayout') = LeafIds(snappedLayout) \ {id}
               /\ UNCHANGED floatingWindows
    ]_vars

\* A tiled window was just deleted while another stays tiled and a third
\* floats.
C18_Witness ==
  /\ lastEvent = Event("deleteSnappedWindow", "none")
  /\ snappedLayout # Null
  /\ IsWindow(snappedLayout)
  /\ Len(floatingWindows) = 1

\* Ids that name no node of the tree: of windows that float or are yet to be
\* created, of containers not in use, and an id nothing ever carries.
AbsentIds(tree) ==
  ((0..MaxWindows) \cup ContainerIds) \ { n.id : n \in NodeSet(tree) }

\* C19: remove(tree, id) with an id that is not the id of any node of the
\* tree returns a tree equal to the input in structure, ids, directions,
\* split ratios and bounds; remove(null, id) returns null.
C19_RemoveAbsent ==
  /\ \A id \in AbsentIds(snappedLayout) :
       removeNodeById(snappedLayout, id) = snappedLayout
  /\ \A id \in (0..MaxWindows) \cup ContainerIds :
       removeNodeById(Null, id) = Null

\* The tree is a container of two windows, and the id of the window that
\* floats is removed from it.
C19_Witness ==
  /\ Cardinality(ContainersOf(snappedLayout)) = 1
  /\ Len(floatingWindows) = 1
  /\ floatingWindows[1].id \in AbsentIds(snappedLayout)
  /\ removeNodeById(snappedLayout, floatingWindows[1].id) = snappedLayout

PositiveBounds(tree) ==
  \A n \in NodeSet(tree) : n.bounds.width > 0 /\ n.bounds.height > 0

\* A Window leaf at x = 400 px whose width the halving of one insert after
\* another has taken to 0: JavaScript numbers halve 400 px to 0 in 1085
\* steps, past MaxWindows.
DegenerateLeaf ==
  WindowNode(ProbeWindow, Rect(Px(400), 0, 0, containerRect.height))

\* C20 (degenerate split): an insert that would give either resulting child
\* a rectangle of non-positive width or height is rejected as a no-op, and
\* in every reachable tree every node's bounds have strictly positive width
\* and height.
C20_DegenerateSplit ==
  /\ PositiveBounds(snappedLayout)
  /\ \A i \in 1..Len(floatingWindows), side \in Sides :
       LET r == snapToExistingWindow(DegenerateLeaf, DegenerateLeaf.id,
                                     WindowDataOf(floatingWindows[i]), side,
                                     FreshContainerId(DegenerateLeaf))
       IN ~PositiveBounds(r) => r = DegenerateLeaf

\* ------------------------------------------------------------------------
\* Rendering
\* ------------------------------------------------------------------------

\* renderSnappedNode that renders a container's children last to first.
RECURSIVE renderSnappedNode_Reversed(_)
renderSnappedNode_Reversed(node) ==
  IF IsWindow(node) /\ "window" \in DOMAIN node
  THEN <<Element("snapped", node.id, node.bounds, node.window.color,
                 node.window.title)>>
  ELSE IF IsContainer(node) /\ "container" \in DOMAIN node
       THEN LET ch == node.container.children
                RECURSIVE Cat(_)
                Cat(i) == IF i < 1 THEN << >>
                          ELSE renderSnappedNode_Reversed(ch[i])
                                 \o Cat(i - 1)
            IN Cat(Len(ch))
       ELSE << >>

\* The window elements renderSnappedNode(node) puts in the document, in
\* document order.
RECURSIVE renderSnappedNode(_)
renderSnappedNode(node) ==
  IF IsWindow(node) /\ "window" \in DOMAIN node
  THEN <<Element("snapped", node.id, node.bounds, node.window.color,
                 node.window.title)>>
  ELSE IF IsContainer(node) /\ "container" \in DOMAIN node
       THEN LET ch == node.container.children
                RECURSIVE Cat(_)
                Cat(i) == IF i > Len(ch) THEN << >>
                          ELSE renderSnappedNode(ch[i]) \o Cat(i + 1)
            IN Cat(1)
       ELSE << >>

\* The window elements of the component's render: the snapped windows, then
\* the floating windows.
RenderedWindows ==
  (IF snappedLayout # Null THEN renderSnappedNode(snappedLayout) ELSE << >>)
    \o [i \in 1..Len(floatingWindows) |->
          LET w == floatingWindows[i]
          IN Element("floating", w.id,
                     Rect(w.x, w.y, w.width, w.height), w.color, w.title)]

\* The ids of the Window leaves of a tree, first subtree before second.
RECURSIVE InOrderIds(_)
InOrderIds(tree) ==
  IF tree = Null THEN << >>
  ELSE IF IsWindow(tree) THEN <<tree.id>>
  ELSE InOrderIds(tree.container.children[1])
         \o InOrderIds(tree.container.children[2])

FloatingIdSeq == [i \in 1..Len(floatingWindows) |-> floatingWindows[i].id]

\* s without its k-th element.
Without(s, k) == SubSeq(s, 1, k - 1) \o SubSeq(s, k + 1, Len(s))

\* C21: the list handed to the renderer contains every tiled window exactly
\* once, in in-order traversal of the tree (first subtree before second),
\* followed by every floating window exactly once in the order the windows
\* entered the floating set (a window enters only at the end, by creation or
\* drag-out, and a window that leaves does not reorder the others); no window
\* appears in both parts.
C21_RenderList ==
  /\ [](LET ids == [i \in 1..Len(RenderedWindows) |-> RenderedWindows[i].id]
            kinds ==
              [i \in 1..Len(RenderedWindows) |-> RenderedWindows[i].kind]
            nTiled == Len(InOrderIds(snappedLayout))
        IN /\ ids = InOrderIds(snappedLayout) \o FloatingIdSeq
           /\ \A i \in 1..Len(ids) :
                kinds[i] = (IF i <= nTiled THEN "snapped" ELSE "floating")
           /\ \A i, j \in 1..Len(ids) : i # j => ids[i] # ids[j]
           /\ SeqRange(InOrderIds(snappedLayout)) = LeafIds(snappedLayout)
           /\ \A i \in 1..nTiled :
                \E l \in WindowsOf(snappedLayout) :
                  /\ l.id = ids[i]
                  /\ RenderedWindows[i].bounds = l.bounds
                  /\ RenderedWindows[i].color = l.window.color
                  /\ RenderedWindows[i].title = l.window.title)
  /\ [][\/ FloatingIdSeq' = FloatingIdSeq
        \/ \E id \in 1..MaxWindows :
             /\ id \notin SeqRange(FloatingIdSeq)
             /\ FloatingIdSeq' = Append(FloatingIdSeq, id)
             /\ lastEvent'.op = "addFloatingWindow"
                  \/ lastEvent' = Event("handleMouseMove", "dragOut")
        \/ \E k \in 1..Len(FloatingIdSeq) :
             FloatingIdSeq' = Without(FloatingIdSeq, k)
       ]_vars

\* Window 1 was just dragged out of a tree that keeps window 2, while window 3
\* floats: the list is 2, then 3, then 1.
C21_Witness ==
  /\ lastEvent = Event("handleMouseMove", "dragOut")
  /\ [i \in 1..Len(RenderedWindows) |-> RenderedWindows[i].id] = <<2, 3, 1>>
  /\ RenderedWindows[1].kind = "snapped"

\* C22 (cancellation): when the gesture ends without a pointer-up reaching
\* the surface, the controller is Idle and the indicator is cleared: the
\* controller does not stay in a Dragging state after the gesture has
\* physically ended.
C22_Cancellation ==
  lastEvent.op = "mouseUpOutside" =>
    /\ draggedWindow = Null
    /\ snapIndicator = Null

\* C23: after a change of the viewport size the tree root's bounds equal the
\* new viewport rectangle and every descendant's bounds are recomputed from
\* it, so the containers tile with respect to the new viewport.  Stated for
\* a tree whose root is a container that filled the old viewport and whose
\* containers tiled.
C23_ResizeRecompute ==
  [][(/\ resize
      /\ snappedLayout # Null
      /\ IsContainer(snappedLayout)
      /\ snappedLayout.bounds = ViewportRect
      /\ C1_ContainersTile)
       => /\ snappedLayout'.bounds = ViewportRect'
          /\ C1_ContainersTile'
    ]_vars

\* C24: a Container's direction is fixed at creation: across every step
\* (insert, remove, drag event) a Container that still exists (same id)
\* keeps its direction, no surviving window passes from one of its children
\* to the other, and its splitRatio is and stays 1/2, strictly between 0
\* and 1.
C24_DirectionFixed ==
  [][\A c \in ContainersOf(snappedLayout) :
       /\ c.container.splitRatio = SplitHalf
       /\ 0 < SplitHalf.num /\ SplitHalf.num < SplitHalf.den
       /\ \A d \in ContainersOf(snappedLayout') :
            d.id = c.id =>
              /\ d.container.direction = c.container.direction
              /\ d.container.splitRatio = c.container.splitRatio
              /\ Len(d.container.children) = 2
              /\ LeafIds(d.container.children[1])
                   \cap LeafIds(c.container.children[2]) = {}
              /\ LeafIds(d.container.children[2])
                   \cap LeafIds(c.container.children[1]) = {}
    ]_vars

\* One of three tiled windows was just deleted: one of the two containers
\* is still in the tree.
C24_Witness ==
  /\ lastEvent = Event("deleteSnappedWindow", "none")
  /\ created = 3
  /\ snappedLayout # Null
  /\ IsContainer(snappedLayout)
  /\ floatingWindows = << >>

\* C25: a window's identity and payload are stable across floating/tiled
\* transitions.  In every step, a Window leaf that enters the tree carries
\* the id, color and title of the floating window with that id, which leaves
\* the floating set; and a floating window that appears without having been
\* created by the "+" button carries the id, color and title of the tiled
\* leaf with that id, which leaves the tree.
C25_PayloadStable ==
  [][/\ \A n \in NodeSet(snappedLayout') :
          (IsWindow(n) /\ n.id \notin LeafIds(snappedLayout)) =>
            /\ FindFloating(n.id) # Null
            /\ n.window.color = FindFloating(n.id).color
            /\ n.window.title = FindFloating(n.id).title
            /\ n.window.id = n.id
            /\ \A i \in 1..Len(floatingWindows') :
                 floatingWindows'[i].id # n.id
     /\ \A i \in 1..Len(floatingWindows') :
          (/\ floatingWindows'[i].id \notin FloatingIds
           /\ created' = created) =>
            \E n \in NodeSet(snappedLayout) :
              /\ IsWindow(n)
              /\ n.id = floatingWindows'[i].id
              /\ n.window.id = floatingWindows'[i].id
              /\ n.window.color = floatingWindows'[i].color
              /\ n.window.title = floatingWindows'[i].title
              /\ n.id \notin LeafIds(snappedLayout')
    ]_vars

\* Window 1 was snapped next to another window and has just been dragged
\* out again: it is floating with the color and title it was created with.
C25_Witness ==
  /\ lastEvent = Event("handleMouseMove", "dragOut")
  /\ snappedLayout # Null
  /\ Len(floatingWindows) = 1
  /\ floatingWindows[1].id = 1
  /\ floatingWindows[1].title = 1
  /\ floatingWindows[1].color \in Hues
  /\ draggedWindow # Null
  /\ draggedWindow.id = 1

\* Pointer p is farther than the snap threshold from every viewport edge and
\* inside no tiled window.
NoSnapTargetAt(p) ==
  /\ p.x > Px(SNAP_THRESHOLD)
  /\ p.x < viewport.width - Px(SNAP_THRESHOLD)
  /\ p.y > Px(SNAP_THRESHOLD)
  /\ p.y < viewport.height - Px(SNAP_THRESHOLD)
  /\ \A n \in NodeSet(snappedLayout) :
       IsWindow(n) =>
         \/ p.x < n.bounds.x
         \/ p.x > n.bounds.x + n.bounds.width
         \/ p.y < n.bounds.y
         \/ p.y > n.bounds.y + n.bounds.height

\* C26: the indicator is never stale.  After every pointer move to p taken
\* while a floating window is dragged, the stored indicator equals
\* getSnapTarget(p, viewport, current tree), so it is none when the resolver
\* finds no target at p; nothing but such a move and pointer-up changes the
\* indicator; and a pointer-up taken while the indicator is none leaves the
\* tree and the floating set as they are.
C26_IndicatorFresh ==
  [][/\ \A p \in Points :
          (DraggingFloating /\ handleMouseMove(p)) =>
            /\ snapIndicator' =
                 getSnapTarget(p.x, p.y, containerRect', snappedLayout')
            /\ NoSnapTargetAt(p) => snapIndicator' = Null
     /\ snapIndicator' # snapIndicator =>
          \/ lastEvent' = Event("handleMouseMove", "floating")
          \/ lastEvent'.op = "handleMouseUp"
     /\ (snapIndicator = Null /\ handleMouseUp) =>
          /\ snappedLayout' = snappedLayout
          /\ floatingWindows' = floatingWindows
    ]_vars

\* A floating window is dragged over a point that is inside no tiled window
\* and near no edge, while a window is tiled: the indicator is none.
C26_Witness ==
  /\ lastEvent = Event("handleMouseMove", "floating")
  /\ DraggingFloating
  /\ snappedLayout # Null
  /\ snapIndicator = Null
  /\ \E p \in Points :
       /\ NoSnapTargetAt(p)
       /\ FindFloating(draggedWindow.id) # Null
       /\ FindFloating(draggedWindow.id).x = p.x - draggedWindow.offset.x
       /\ FindFloating(draggedWindow.id).y = p.y - draggedWindow.offset.y

\* Every container of the subtree under node has two children whose bounds
\* tile its own: the window leaves of the subtree exactly fill node.bounds.
SubtreeTiled(node) ==
  \A c \in ContainersOf(node) :
    /\ Len(c.container.children) = 2
    /\ TilesExactly(c.bounds, c.container.direction,
                    c.container.children[1].bounds,
                    c.container.children[2].bounds)

\* C27: growth after removal reaches the whole promoted subtree.  When a
\* step removes window id from the tree and the remaining child k of id's
\* parent c is a Container (with a consistently tiled subtree), then in the
\* new tree k has c's former bounds and the bounds of all its descendants
\* are recomputed, so that its window leaves exactly fill those bounds.
C27_PromotionRecomputes ==
  [][\A c \in ContainersOf(snappedLayout) :
       \A i \in 1..2 :
         LET gone == c.container.children[i]
             k == c.container.children[3 - i]
         IN (/\ IsWindow(gone)
             /\ IsContainer(k)
             /\ SubtreeTiled(k)
             /\ snappedLayout' = removeNodeById(snappedLayout, gone.id)) =>
              \E n \in NodeSet(snappedLayout') :
                /\ n.id = k.id
                /\ n.bounds = c.bounds
                /\ SubtreeTiled(n)
    ]_vars

\* Rectangles a and b share interior points.
RectsOverlap(a, b) ==
  /\ a.x < b.x + b.width
  /\ b.x < a.x + a.width
  /\ a.y < b.y + b.height
  /\ b.y < a.y + a.height

OppositeSide(side) ==
  IF side = "left" THEN "right"
  ELSE IF side = "right" THEN "left"
  ELSE IF side = "top" THEN "bottom"
  ELSE "top"

\* C28: shrinking after an edge insert reaches the whole wrapped tree.  When
\* a pointer-up commits a screen-edge indicator on a tree whose root is a
\* Container (that tiled its bounds), the old root takes a half of the
\* viewport, the bounds of all its descendants are recomputed from that
\* half, and no previously tiled window overlaps the new window.
C28_EdgeInsertRecomputes ==
  [][(/\ handleMouseUp
      /\ CommitEnabled
      /\ ~HasTarget(snapIndicator)
      /\ snappedLayout # Null
      /\ IsContainer(snappedLayout)
      /\ SubtreeTiled(snappedLayout)) =>
       /\ \E old \in NodeSet(snappedLayout') :
            /\ old.id = snappedLayout.id
            /\ old.bounds =
                 getWindowConfig(OppositeSide(snapIndicator.side),
                                 containerRect)
            /\ SubtreeTiled(old)
       /\ \A new, n \in WindowsOf(snappedLayout') :
            (new.id = draggedWindow.id /\ n.id # new.id) =>
              ~RectsOverlap(n.bounds, new.bounds)
    ]_vars

\* C29: a drop lands where the indicator showed.  After a pointer-up commits
\* a snap with indicator I (a screen-edge indicator or one with a
\* targetNodeId that is a leaf of the tree, on an empty or a non-empty
\* tree), the bounds of the newly inserted Window leaf equal I's rectangle.
C29_DropAtIndicator ==
  [][(/\ handleMouseUp
      /\ CommitEnabled
      /\ ~InvalidTarget) =>
       \E n \in WindowsOf(snappedLayout') :
         /\ n.id = draggedWindow.id
         /\ n.bounds = IndicatorRect(snapIndicator)
    ]_vars

\* C30: drag state machine shape.  The drag state leaves Idle only by a
\* pointer-down and returns to Idle only by a pointer-up; while it stays
\* Dragging the subject id does not change, and the kind changes only from
\* tiled to floating, by a drag-out (so at most once in a gesture, and never
\* from floating to tiled).
C30_DragStateMachine ==
  [][/\ (draggedWindow = Null /\ draggedWindow' # Null) =>
          lastEvent'.op = "handleMouseDown"
     /\ (draggedWindow # Null /\ draggedWindow' = Null) =>
          lastEvent'.op = "handleMouseUp"
     /\ (draggedWindow # Null /\ draggedWindow' # Null) =>
          /\ draggedWindow'.id = draggedWindow.id
          /\ draggedWindow'.type # draggedWindow.type =>
               /\ draggedWindow.type = "snapped"
               /\ draggedWindow'.type = "floating"
               /\ lastEvent' = Event("handleMouseMove", "dragOut")
    ]_vars

C32_BatchedDragOutOnce ==
  [][\A p \in Points, q \in Points :
       (/\ DraggingTiled
        /\ Displacement(p, draggedWindow.offset) > Px(DRAG_OUT_THRESHOLD)
        /\ Displacement(q, draggedWindow.offset) > Px(DRAG_OUT_THRESHOLD)
        /\ handleMouseMoveBatch(p, q)) =>
         /\ Len(SelectSeq(floatingWindows',
                          LAMBDA w : w.id = draggedWindow.id)) = 1
         /\ draggedWindow.id \notin LeafIds(snappedLayout')
    ]_vars

\* C33: in Claude.tsx, snapping a window to a screen edge of a non-empty
\* tree gives the two children of the new root Container bounds that are the
\* two exact halves of the viewport (in pixels, or as fractions of the
\* root), so that the new window and the old tree do not overlap.
C33_ClaudeEdgeSnapHalves ==
  [][(/\ Claude_handleMouseUp
      /\ CommitEnabled
      /\ ~HasTarget(snapIndicator)
      /\ snappedLayout # Null) =>
       /\ IsContainer(snappedLayout')
       /\ LET c == snappedLayout'.container
          IN /\ Len(c.children) = 2
             /\ \/ ExactHalves(ViewportRect, c.direction,
                               c.children[1].bounds, c.children[2].bounds)
                \/ ExactHalves(Rect(0, 0, One, One), c.direction,
                               c.children[1].bounds, c.children[2].bounds)
             /\ ~RectsOverlap(c.children[1].bounds, c.children[2].bounds)
    ]_vars

PresentIds == FloatingIds \cup LeafIds(snappedLayout)

\* C35: conservation of windows.  A pointer-down, pointer-move or pointer-up
\* step leaves the set of window ids of the floating set and the tree as it
\* is, with every id present exactly once; a create step adds one fresh id,
\* in the floating set; a delete step removes exactly one id.  Delete steps
\* may come between the events of a drag gesture.
C35_Conservation ==
  [][/\ lastEvent'.op \in {"handleMouseDown", "handleMouseMove",
                           "handleMouseUp", "mouseUpOutside"} =>
          /\ PresentIds' = PresentIds
          /\ WindowObjects' = Cardinality(PresentIds')
     /\ lastEvent'.op = "addFloatingWindow" =>
          \E id \in 1..MaxWindows :
            /\ id \notin PresentIds
            /\ PresentIds' = PresentIds \cup {id}
            /\ id \in FloatingIds'
     /\ lastEvent'.op \in {"deleteFloatingWindow", "deleteSnappedWindow"} =>
          \E id \in PresentIds : PresentIds' = PresentIds \ {id}
    ]_vars

\* C36: in every reachable state a non-null snap indicator implies that a
\* floating window is being dragged and that its id is in the floating set
\* (so the indicator is none in Idle and throughout Dragging(Tiled)), and
\* the indicator's targetNodeId is not the id of the dragged window.
C36_IndicatorImpliesDragging ==
  snapIndicator # Null =>
    /\ draggedWindow # Null
    /\ draggedWindow.type = "floating"
    /\ draggedWindow.id \in FloatingIds
    /\ HasTarget(snapIndicator) =>
         snapIndicator.targetNodeId # draggedWindow.id

\* C37: the drag-out distance is the Manhattan distance from the down-point
\* d.  A move to p while tiled window W is dragged converts W to floating
\* exactly when |p.x - d.x| + |p.y - d.y| > DRAG_OUT_THRESHOLD (strictly): a
\* move of exactly 50 px along one axis converts nothing, a diagonal move of
\* (30, 30) converts.
C37_ManhattanThreshold ==
  [][\A p \in Points :
       (DraggingTiled /\ handleMouseMove(p)) =>
         LET d == draggedWindow.offset
             dx == Abs(p.x - d.x)
             dy == Abs(p.y - d.y)
             converted ==
               /\ draggedWindow'.type = "floating"
               /\ draggedWindow.id \in FloatingIds'
               /\ draggedWindow.id \notin LeafIds(snappedLayout')
             untouched ==
               /\ draggedWindow' = draggedWindow
               /\ snappedLayout' = snappedLayout
               /\ floatingWindows' = floatingWindows
         IN /\ dx + dy > Px(DRAG_OUT_THRESHOLD) => converted
            /\ dx + dy <= Px(DRAG_OUT_THRESHOLD) => untouched
            /\ ((dx = Px(50) /\ dy = 0) \/ (dx = 0 /\ dy = Px(50))) =>
                 untouched
            /\ (dx = Px(30) /\ dy = Px(30)) => converted
    ]_vars

\* The only window was tiled and has just been dragged out by a move to
\* (130, 50): its header holds the down-points (100, 20) and (150, 20), and
\* from (150, 20) the distance is 50, so the move was the (30, 30) diagonal
\* from (100, 20).
C37_Witness ==
  /\ lastEvent = Event("handleMouseMove", "dragOut")
  /\ created = 1
  /\ snappedLayout = Null
  /\ Len(floatingWindows) = 1
  /\ floatingWindows[1].x = Px(130) - Half(Px(MIN_WIDTH))
  /\ floatingWindows[1].y = Px(50) - Half(Px(HEADER_HEIGHT))

====
